---- MODULE Spec2Model ----
(***************************************************************************)
(* Loan affordability calculator (ml_logic): amortization engine,          *)
(* loan-term policy, reporting-year validation of the income document and  *)
(* the effort-ratio decision of loan_analysis.                             *)
(*                                                                         *)
(* Numbers.  The program computes with Python floats.  The model computes  *)
(* with exact rationals <<numerator, denominator>> (denominator > 0, in    *)
(* lowest terms), so an identity that holds here holds in the program up   *)
(* to floating-point rounding.                                             *)
(***************************************************************************)
EXTENDS Integers, Sequences, FiniteSets, TLC

VARIABLES
    env,          \* the configuration read from the environment
    today,        \* datetime.today() during the call
    loanIn,       \* arguments of intCapLoan / intCapLoanStress
    schedActual,  \* what intCapLoan returned
    schedStress,  \* what intCapLoanStress returned
    ageIn,        \* arguments of calculate_age
    ageOut,       \* what calculate_age returned
    doc,          \* the income document (the pages pdfplumber reads)
    validation,   \* what validate_document_year returned
    summary,      \* what is_document_acceptable found
    req,          \* arguments of loan_analysis and the two documents behind the paths
    pc,           \* the statement of loan_analysis the call has reached
    files,        \* the working directory: which upload each temporary file holds
    form,         \* per browser session, the run of the form's script
    run,          \* the locals of loan_analysis, its result and its error
    numIn,        \* the cells of a row, or the lines of a text
    numOut,       \* what the two numeric extractors returned for them
    extraction,   \* what process_pdf_IRS made of the income document
    crcDoc,       \* the charges document (its pages, each the lines of its text)
    chargeOut     \* what get_monthly_bank_charge returned

loanVars == <<loanIn, schedActual, schedStress>>

ageVars == <<ageIn, ageOut>>

yearVars == <<doc, validation, summary>>

analysisVars == <<req, pc, run>>

numberVars == <<numIn, numOut>>

chargeVars == <<crcDoc, chargeOut>>

extractVars == <<numberVars, extraction, chargeVars>>

formVars == <<files, form>>

vars == <<env, today, formVars, loanVars, ageVars, yearVars, analysisVars, extractVars>>

None == "None"

(***************************************************************************)
(* Exact rational arithmetic.                                              *)
(***************************************************************************)
Abs(i) == IF i < 0 THEN -i ELSE i

RECURSIVE GCD(_, _)
GCD(a, b) == IF b = 0 THEN a ELSE GCD(b, a % b)

Norm(n, d) == LET g == GCD(Abs(n), d) IN <<n \div g, d \div g>>

R(n, d) == Norm(n, d)

Zero == <<0, 1>>

One == <<1, 1>>

IsRat(x) == x \in Int \X Nat

RNeg(x) == <<-x[1], x[2]>>

RAdd(x, y) ==
    LET g == GCD(x[2], y[2])
    IN  Norm(x[1] * (y[2] \div g) + y[1] * (x[2] \div g), x[2] * (y[2] \div g))

RSub(x, y) == RAdd(x, RNeg(y))

RMul(x, y) ==
    LET g1 == GCD(Abs(x[1]), y[2])
        g2 == GCD(Abs(y[1]), x[2])
    IN  <<(x[1] \div g1) * (y[1] \div g2), (x[2] \div g2) * (y[2] \div g1)>>

RInv(x) == IF x[1] > 0 THEN <<x[2], x[1]>> ELSE <<-x[2], -x[1]>>

RDiv(x, y) == RMul(x, RInv(y))

RLe(x, y) == x[1] * y[2] <= y[1] * x[2]

RLt(x, y) == x[1] * y[2] < y[1] * x[2]

RAbs(x) == <<Abs(x[1]), x[2]>>

RECURSIVE RPow(_, _)
RPow(x, n) ==
    IF n = 0 THEN One
    ELSE IF n % 2 = 0 THEN LET half == RPow(x, n \div 2) IN RMul(half, half)
    ELSE RMul(x, RPow(x, n - 1))

RECURSIVE RSum(_)
RSum(s) == IF s = <<>> THEN Zero ELSE RAdd(Head(s), RSum(Tail(s)))

(* round(x, 5): the nearest multiple of 10^-5, a tie going to the even one. *)
(* The digits come from long division, one decimal place at a time.        *)
RECURSIVE ScaledFloor(_, _, _, _)
ScaledFloor(acc, rem, d, places) ==
    IF places = 0 THEN <<acc, rem>>
    ELSE ScaledFloor(acc * 10 + ((rem * 10) \div d), (rem * 10) % d, d, places - 1)

RoundPlaces(x, places) ==
    LET q  == x[1] \div x[2]
        r0 == x[1] % x[2]
        fl == ScaledFloor(0, r0, x[2], places)
        scale == RPow(<<10, 1>>, places)[1]
        lo == q * scale + fl[1]
        up == IF 2 * fl[2] > x[2] THEN 1
              ELSE IF 2 * fl[2] < x[2] THEN 0
              ELSE lo % 2
    IN  Norm(lo + up, scale)

(***************************************************************************)
(* Configuration (.env, read with os.getenv at every call) and the inputs  *)
(* the form hands over.  Annual rates are chosen so that a twelfth of      *)
(* every sum of them is a short fraction: RateStep/12 is 1/10 a month.     *)
(***************************************************************************)
Unset == [kind |-> "unset", v |-> <<0, 1>>]

Number(x) == [kind |-> "number", v |-> x]

(* get_user_input and calculate_age return None for "no amount" and "no    *)
(* term"; an amount and a term are positive, so 0 stands for None.         *)
NoAmount == 0

NoTerm == 0

RateStep == R(6, 5)

EnvText(x) == [kind |-> "text", v |-> x]

AnexoNames == <<"Anexo_A", "Anexo_B", "Anexo_D">>

Anexos == {AnexoNames[i] : i \in 1 .. 3}

(* The codes of the Anexo B rates, in the order of the code list (three of *)
(* its twenty-nine codes, the first two and the last).                     *)
Codes == <<401, 402, 459>>

(* A configuration with every variable set.  DATE_LIMIT is "MM-DD", kept   *)
(* as <<month, day>>; a section key is a text (a sequence of characters).  *)
BaseEnv ==
    [TXFIXA |-> Number(RateStep), TXSTRESS |-> Number(RateStep),
     LIMITRATE |-> Number(R(1, 2)),
     SPREAD |-> <<Number(RateStep), Unset, Unset>>,
     BANK_CHARGE |-> EnvText(<<"m">>),
     DATE_LIMIT |-> EnvText(<<6, 15>>),
     KEY_ANEXO |-> [a \in Anexos |->
                      IF a = "Anexo_A" THEN <<"K", "a">>
                      ELSE IF a = "Anexo_B" THEN <<"k", "b">>
                      ELSE <<"k", "e'", "d">>],
     FIELD_VALUE |-> [a \in {"Anexo_A", "Anexo_D"} |->
                        IF a = "Anexo_A" THEN EnvText(<<"F", "a">>)
                        ELSE EnvText(<<"f", "e'">>)],
     FIELD_VALUE_B_tx |-> [i \in 1 .. Len(Codes) |->
                             IF i = 1 THEN Number(R(3, 4))
                             ELSE IF i = 2 THEN Number(R(1, 2))
                             ELSE Unset]]

EnvChoices ==
    { [BaseEnv EXCEPT !.TXFIXA = Unset,
                      !.SPREAD = <<Unset, Unset, Unset>>],
      BaseEnv,
      [BaseEnv EXCEPT !.TXSTRESS = Unset,
                      !.SPREAD = <<Number(Zero), Number(RateStep), Number(RateStep)>>] }

(* os.getenv(name, 0) followed by float(): an unset variable reads as 0.   *)
EnvFloat(x, default) == IF x.kind = "unset" THEN default ELSE x.v

(* What output_euriborRate() returns at the time of a call: the rows of    *)
(* the current month (the three reference rates of the first row), or no   *)
(* row at all (no table, no row of this month, request failed).            *)
EuriborRow == {RMul(<<2, 1>>, RateStep)}

LookupChoices == {[rows |-> TRUE, rates |-> EuriborRow],
                  [rows |-> FALSE, rates |-> {}]}

RateInputs == {Zero, RateStep, RMul(<<2, 1>>, RateStep), R(3, 5)}

SpreadInputs == {Zero, RateStep, R(3, 5)}

MaxLoan == 2

MaxTerm == 3

(* A loan amount as the caller passes it: a Python int or a float.         *)
LoanInputs == [type : {"int"}, val : 0 .. MaxLoan] \cup [type : {"float"}, val : {1}]

TermInputs == (1 .. MaxTerm) \cup {NoTerm}

(***************************************************************************)
(* interest_rate.tx_spread: rate + spread for an accepted pair, the text   *)
(* "Escolha as taxas pretendidas" otherwise; output_euriborRate()[0]       *)
(* raises IndexError when the lookup has no row.                           *)
(***************************************************************************)
valid_spreads(e) == {EnvFloat(e.SPREAD[i], Zero) : i \in 1 .. 3}

tx_spread(rate, spread, e, lookup) ==
    IF ~lookup.rows THEN [kind |-> "raise", v |-> Zero]
    ELSE IF (rate \in lookup.rates \/ rate = EnvFloat(e.TXFIXA, Zero))
            /\ spread \in valid_spreads(e)
         THEN [kind |-> "value", v |-> RAdd(rate, spread)]
         ELSE [kind |-> "message", v |-> Zero]

(* user_input.get_user_input: the amount itself for a positive int, None   *)
(* for anything else.                                                      *)
get_user_input(loan) ==
    IF loan.type = "int" /\ loan.val > 0 THEN loan.val ELSE NoAmount

(***************************************************************************)
(* numpy_financial, as called by calcul_loan (when = 'end', fv = 0).       *)
(***************************************************************************)
NpfFact(rate, nper) ==
    IF rate = Zero THEN <<nper, 1>>
    ELSE RDiv(RSub(RPow(RAdd(One, rate), nper), One), rate)

(* Mutant of Pmt: payments due at the beginning of each period (when = 1). *)
PmtWhenBegin(rate, nper, pv) ==
    RNeg(RDiv(RMul(<<pv, 1>>, RPow(RAdd(One, rate), nper)),
              RMul(RAdd(One, rate), NpfFact(rate, nper))))

Pmt(rate, nper, pv) ==
    RNeg(RDiv(RMul(<<pv, 1>>, RPow(RAdd(One, rate), nper)), NpfFact(rate, nper)))

Fv(rate, nper, pmt, pv) ==
    RNeg(RAdd(RMul(<<pv, 1>>, RPow(RAdd(One, rate), nper)),
              RMul(pmt, NpfFact(rate, nper))))

(* Mutant of Ipmt: interest on the balance after the period, not before.   *)
IpmtAfterPeriod(rate, per, nper, pv) ==
    RMul(Fv(rate, per, Pmt(rate, nper, pv), pv), rate)

Ipmt(rate, per, nper, pv) ==
    RMul(Fv(rate, per - 1, Pmt(rate, nper, pv), pv), rate)

(* Mutant of Ppmt: the whole payment counted as principal.                 *)
PpmtWholePayment(rate, per, nper, pv) == Pmt(rate, nper, pv)

Ppmt(rate, per, nper, pv) ==
    RSub(Pmt(rate, nper, pv), Ipmt(rate, per, nper, pv))

(***************************************************************************)
(* calcul_loan.intCapLoan and intCapLoanStress.  term_months is what       *)
(* calculate_age returned for the birthdates.  A call ends with a schedule *)
(* and a payment ("ok"), with (None, None) ("none"), or raises ("raise").  *)
(***************************************************************************)
NoCall == [kind |-> "idle", total_rate |-> Zero, monthly_rate |-> Zero,
           nper |-> 0, pv |-> 0]

CallEnds(kind) == [NoCall EXCEPT !.kind = kind]

CallOk(total_rate, nper, pv) ==
    [kind |-> "ok", total_rate |-> total_rate,
     monthly_rate |-> RDiv(total_rate, <<12, 1>>), nper |-> nper, pv |-> pv]

intCapLoanArgs(rate, spread, loan, term_months, e, lookup) ==
    LET total_rate == tx_spread(rate, spread, e, lookup)
        loan_amount == get_user_input(loan)
    IN  IF total_rate.kind = "raise" THEN CallEnds("raise")
        ELSE IF loan_amount = NoAmount THEN CallEnds("none")
        ELSE IF term_months = NoTerm THEN CallEnds("none")
        ELSE IF total_rate.kind = "message" THEN CallEnds("raise")
        ELSE CallOk(total_rate.v, term_months, loan_amount)

(* Mutant of intCapLoanStressArgs: TXSTRESS is not added.                  *)
intCapLoanStressNoStress(rate, spread, loan, term_months, e, lookup) ==
    intCapLoanArgs(rate, spread, loan, term_months, e, lookup)

intCapLoanStressArgs(rate, spread, loan, term_months, e, lookup) ==
    LET TXSTRESS == EnvFloat(e.TXSTRESS, Zero)
        spreadRate == tx_spread(rate, spread, e, lookup)
        loan_amount == get_user_input(loan)
    IN  IF spreadRate.kind # "value" THEN CallEnds("raise")
        ELSE IF loan_amount = NoAmount THEN CallEnds("none")
        ELSE IF term_months = NoTerm THEN CallEnds("none")
        ELSE CallOk(RAdd(TXSTRESS, spreadRate.v), term_months, loan_amount)

(* The columns of the schedule, one value per period.                      *)
PrestacaoMensal(rate, nper, pv) == RNeg(Pmt(rate, nper, pv))

Juros(rate, per, nper, pv) == RNeg(Ipmt(rate, per, nper, pv))

Capital(rate, per, nper, pv) == RNeg(Ppmt(rate, per, nper, pv))

CapitalCumsum(rate, per, nper, pv) ==
    RSum([k \in 1 .. per |-> Capital(rate, k, nper, pv)])

CapitalEmDivida(rate, per, nper, pv) ==
    RoundPlaces(RSub(<<pv, 1>>, CapitalCumsum(rate, per, nper, pv)), 5)

ScheduleRow(rate, per, nper, pv) ==
    [N |-> per,
     Prestacao |-> PrestacaoMensal(rate, nper, pv),
     Juros |-> Juros(rate, per, nper, pv),
     Capital |-> Capital(rate, per, nper, pv),
     Divida |-> CapitalEmDivida(rate, per, nper, pv)]

(* (df, payment) of a call; (None, None) and a raise carry no schedule.    *)
LoanResult(call) ==
    IF call.kind = "ok"
    THEN [call |-> call,
          payment |-> PrestacaoMensal(call.monthly_rate, call.nper, call.pv),
          df |-> [per \in 1 .. call.nper |->
                    ScheduleRow(call.monthly_rate, per, call.nper, call.pv)]]
    ELSE [call |-> call, payment |-> Zero, df |-> <<>>]

NoResult == LoanResult(NoCall)

LoanCalls ==
    [rate : RateInputs, spread : SpreadInputs, loan : LoanInputs,
     term : TermInputs, lookup : LookupChoices]

IdleLoan ==
    /\ loanIn = [rate |-> Zero, spread |-> Zero,
                 loan |-> [type |-> "int", val |-> 0], term |-> NoTerm,
                 lookup |-> [rows |-> FALSE, rates |-> {}]]
    /\ schedActual = NoResult
    /\ schedStress = NoResult

IntCapLoan ==
    /\ schedActual' =
         LoanResult(intCapLoanArgs(loanIn.rate, loanIn.spread, loanIn.loan,
                                   loanIn.term, env, loanIn.lookup))
    /\ UNCHANGED <<env, today, formVars, loanIn, schedStress, ageVars, yearVars, analysisVars, extractVars>>

IntCapLoanStress ==
    /\ schedStress' =
         LoanResult(intCapLoanStressArgs(loanIn.rate, loanIn.spread, loanIn.loan,
                                         loanIn.term, env, loanIn.lookup))
    /\ UNCHANGED <<env, today, formVars, loanIn, schedActual, ageVars, yearVars, analysisVars, extractVars>>

(***************************************************************************)
(* user_input.calculate_age.  A birthdate text is <<day, month, year>>,    *)
(* the three numbers "%d/%m/%Y" reads; text that is no such triple is      *)
(* <<0, 0, 0>>.  birthdate_str is one text, or a list/tuple of texts.      *)
(***************************************************************************)
BaseYear == 2026

MaxAge == 77

Date(y, m, d) == [year |-> y, month |-> m, day |-> d]

Today0 == Date(BaseYear, 6, 15)

TodayChoices == {Date(BaseYear, 6, 15), Date(BaseYear, 2, 28)}

IsLeap(y) == (y % 4 = 0 /\ y % 100 # 0) \/ y % 400 = 0

DaysInMonth(y, m) ==
    IF m = 2 THEN (IF IsLeap(y) THEN 29 ELSE 28)
    ELSE IF m \in {4, 6, 9, 11} THEN 30 ELSE 31

(* datetime.strptime(text, "%d/%m/%Y") succeeds for a real calendar date.  *)
Parses(text) ==
    /\ text[3] \in 1 .. 9999
    /\ text[2] \in 1 .. 12
    /\ text[1] \in 1 .. DaysInMonth(text[3], text[2])

strptime(text) == Date(text[3], text[2], text[1])

(* Lexicographic (month, day) < (month, day), as Python compares tuples.   *)
MonthDayBefore(a, b) ==
    a.month < b.month \/ (a.month = b.month /\ a.day < b.day)

calculate_individual_age(birthdate, day) ==
    day.year - birthdate.year - (IF MonthDayBefore(day, birthdate) THEN 1 ELSE 0)

Max(a, b) == IF a >= b THEN a ELSE b

(* Mutant of CoupleAge: only the first applicant counts.                   *)
CoupleAgeFirstOnly(ageA, ageB) == ageA

CoupleAge(ageA, ageB) == Max(ageA, ageB)

AgeLimit == 75

YoungAge == 30

MidAge == 35

SeniorAge == 40

YoungYears == 40

MidYears == 37

MatureYears == 35

MinYears == 5

MonthsPerYear == 12

(* Mutant of max_years: the first band ends below 30.                      *)
max_years_strict(age) ==
    IF age < YoungAge THEN YoungYears
    ELSE IF age <= MidAge THEN MidYears
    ELSE IF age > MidAge /\ age < SeniorAge THEN MatureYears
    ELSE AgeLimit - age

max_years(age) ==
    IF age <= YoungAge THEN YoungYears
    ELSE IF age <= MidAge THEN MidYears
    ELSE IF age > MidAge /\ age < SeniorAge THEN MatureYears
    ELSE AgeLimit - age

AgeResult(kind, term, age) ==
    [kind |-> kind, term |-> term, aged |-> TRUE, age |-> age]

(* Lines 60-78: from the age to the term in months, or None.               *)
TermForAge(age) ==
    IF age > AgeLimit THEN AgeResult("none", NoTerm, age)
    ELSE IF max_years(age) < MinYears THEN AgeResult("none", NoTerm, age)
    ELSE AgeResult("term", max_years(age) * MonthsPerYear, age)

(* What the call does before an age exists: None (returned, or an exception *)
(* caught by the try), or an exception that leaves the function.           *)
NoAge(kind) == [kind |-> kind, term |-> NoTerm, aged |-> FALSE, age |-> 0]

(* Mutant of calculate_age: the version without the try/except around the  *)
(* parsing (user_input copy.py), where a parsing error leaves the function. *)
calculate_age_unguarded(birthdate_str, marital_status, day) ==
    LET items == birthdate_str.items
    IN  IF marital_status = "casado"
        THEN IF ~(birthdate_str.islist /\ Len(items) = 2) THEN NoAge("none")
             ELSE IF ~Parses(items[1]) \/ ~Parses(items[2]) THEN NoAge("raise")
             ELSE TermForAge(CoupleAge(
                      calculate_individual_age(strptime(items[1]), day),
                      calculate_individual_age(strptime(items[2]), day)))
        ELSE IF marital_status = "solteiro"
        THEN IF birthdate_str.islist \/ ~Parses(items[1]) THEN NoAge("raise")
             ELSE TermForAge(calculate_individual_age(strptime(items[1]), day))
        ELSE NoAge("raise")

calculate_age(birthdate_str, marital_status, day) ==
    LET items == birthdate_str.items
    IN  IF marital_status = "casado"
        THEN IF ~(birthdate_str.islist /\ Len(items) = 2) THEN NoAge("none")
             ELSE IF ~Parses(items[1]) \/ ~Parses(items[2]) THEN NoAge("none")
             ELSE TermForAge(CoupleAge(
                      calculate_individual_age(strptime(items[1]), day),
                      calculate_individual_age(strptime(items[2]), day)))
        ELSE IF marital_status = "solteiro"
        THEN IF birthdate_str.islist \/ ~Parses(items[1]) THEN NoAge("none")
             ELSE TermForAge(calculate_individual_age(strptime(items[1]), day))
        ELSE NoAge("raise")

(* Inputs.  Single applicants of every age up to MaxAge (and one born next *)
(* year), couples around the edges of the age bands, and malformed input.  *)
MonthDays == {<<15, 6>>, <<16, 6>>, <<29, 2>>, <<1, 1>>}

BadTexts == {<<0, 0, 0>>, <<31, 4, BaseYear - 30>>}

SingleTexts ==
    {<<md[1], md[2], y>> : md \in MonthDays,
                           y \in (BaseYear - MaxAge) .. (BaseYear + 1)}

EdgeAges == {30, 31, 35, 36, 40, 70, 71, 76}

CoupleTexts ==
    {<<md[1], md[2], BaseYear - a>> : md \in {<<15, 6>>, <<16, 6>>}, a \in EdgeAges}
        \cup BadTexts

Text(t) == [islist |-> FALSE, items |-> <<t>>]

List(ts) == [islist |-> TRUE, items |-> ts]

BirthdateInputs ==
    {Text(t) : t \in SingleTexts \cup BadTexts}
        \cup {List(<<a, b>>) : a \in CoupleTexts, b \in CoupleTexts}
        \cup {List(<<>>), List(<<  <<15, 6, BaseYear - 30>>  >>),
              List(<<  <<15, 6, BaseYear - 30>>, <<15, 6, BaseYear - 31>>,
                       <<15, 6, BaseYear - 32>>  >>)}

MaritalInputs == {"casado", "solteiro", "divorciado"}

NoAgeIn == [birthdate_str |-> List(<<>>), marital_status |-> "idle"]

IdleAge == ageIn = NoAgeIn /\ ageOut = NoAge("idle")

CalculateAge ==
    /\ ageOut' = calculate_age(ageIn.birthdate_str, ageIn.marital_status, today)
    /\ UNCHANGED <<env, today, formVars, loanVars, ageIn, yearVars, analysisVars, extractVars>>

(***************************************************************************)
(* Text.  A text is a sequence of characters; "e'" and "A'" stand for the  *)
(* accented letters e-acute and A-acute, "EUR" for the euro sign.  A cell  *)
(* that is None and an empty text are both <<>>.                           *)
(***************************************************************************)
Digits == <<"0", "1", "2", "3", "4", "5", "6", "7", "8", "9">>

IsDigit(c) == \E i \in 1 .. 10 : Digits[i] = c

DigitValue(c) == (CHOOSE i \in 1 .. 10 : Digits[i] = c) - 1

LowerLetters == {"a", "b", "d", "e", "f", "k", "m", "n", "o", "x"}

UpperLetters == {"A", "B", "D", "E", "F", "K", "M"}

AccentedLetters == {"e'", "A'", "E'"}

ToLower(c) ==
    IF c = "A" THEN "a" ELSE IF c = "B" THEN "b" ELSE IF c = "D" THEN "d"
    ELSE IF c = "E" THEN "e" ELSE IF c = "F" THEN "f" ELSE IF c = "K" THEN "k"
    ELSE IF c = "M" THEN "m" ELSE c

(* NFKD, then encode('ascii', 'ignore'): an accented letter keeps its base *)
(* letter, a character with no ASCII form is dropped.                      *)
ToAscii(c) ==
    IF c = "e'" THEN <<"e">>
    ELSE IF c = "A'" THEN <<"A">>
    ELSE IF c = "E'" THEN <<"E">>
    ELSE IF c = "EUR" THEN <<>>
    ELSE <<c>>

RECURSIVE normalize_text(_)
normalize_text(text) ==
    IF text = <<>> THEN <<>>
    ELSE LET a == ToAscii(Head(text))
         IN  (IF a = <<>> THEN <<>> ELSE <<ToLower(a[1])>>)
                \o normalize_text(Tail(text))

(* sub in text, for Python strings.                                        *)
Contains(sub, text) ==
    \E i \in 0 .. (Len(text) - Len(sub)) : SubSeq(text, i + 1, i + Len(sub)) = sub

(* \w of a Python 3 str pattern: letters (accented too), digits, "_".      *)
IsWordChar(c) ==
    IsDigit(c) \/ c \in LowerLetters \cup UpperLetters \cup AccentedLetters \/ c = "_"

(* re.compile(r"\b(19|20|21)\d{2}\b") matches at position i.               *)
YearMatchAt(text, i) ==
    /\ i + 3 <= Len(text)
    /\ \/ text[i] = "1" /\ text[i + 1] = "9"
       \/ text[i] = "2" /\ text[i + 1] \in {"0", "1"}
    /\ IsDigit(text[i + 2]) /\ IsDigit(text[i + 3])
    /\ i = 1 \/ ~IsWordChar(text[i - 1])
    /\ i + 3 = Len(text) \/ ~IsWordChar(text[i + 4])

HasYear(text) == \E i \in 1 .. Len(text) : YearMatchAt(text, i)

(* int(year_re.search(text).group()): the leftmost match.                  *)
YearOf(text) ==
    LET i == CHOOSE j \in 1 .. Len(text) :
                 YearMatchAt(text, j) /\ \A k \in 1 .. (j - 1) : ~YearMatchAt(text, k)
    IN  DigitValue(text[i]) * 1000 + DigitValue(text[i + 1]) * 100
          + DigitValue(text[i + 2]) * 10 + DigitValue(text[i + 3])

RECURSIVE Flatten(_)
Flatten(seqs) == IF seqs = <<>> THEN <<>> ELSE Head(seqs) \o Flatten(Tail(seqs))

Take(seq, n) == SubSeq(seq, 1, IF Len(seq) < n THEN Len(seq) ELSE n)

(***************************************************************************)
(* The numeric parser shared by model_IRS and other_charge:                *)
(* number_pattern = \d{1,3}(?:\.\d{3})*,\d{2}|\d+,\d{2}, searched in a     *)
(* cell or a line.  A match is <<first, last>>, no match is <<0, 0>>.      *)
(***************************************************************************)
NoMatch == <<0, 0>>

DigitsAt(text, i, n) ==
    /\ i + n - 1 <= Len(text)
    /\ \A j \in i .. (i + n - 1) : IsDigit(text[j])

(* (?:\.\d{3}) repeated g times from position p.                           *)
GroupsAt(text, p, g) ==
    \A j \in 0 .. (g - 1) :
        /\ p + 4 * j <= Len(text)
        /\ text[p + 4 * j] = "."
        /\ DigitsAt(text, p + 4 * j + 1, 3)

(* ,\d{2} at position p.                                                   *)
CommaDecimalsAt(text, p) ==
    /\ p <= Len(text)
    /\ text[p] = ","
    /\ DigitsAt(text, p + 1, 2)

(* The first alternative at position i: the ways <<k, g>> it can match, k  *)
(* leading digits and g groups; the engine prefers more digits, then more  *)
(* groups.                                                                 *)
GroupedWays(text, i) ==
    {w \in (1 .. 3) \X (0 .. (Len(text) \div 4)) :
        /\ DigitsAt(text, i, w[1])
        /\ GroupsAt(text, i + w[1], w[2])
        /\ CommaDecimalsAt(text, i + w[1] + 4 * w[2])}

(* The second alternative at position i: the numbers n of leading digits   *)
(* with which it can match.                                                *)
PlainWays(text, i) ==
    {n \in 1 .. Len(text) : DigitsAt(text, i, n) /\ CommaDecimalsAt(text, i + n)}

MatchAt(text, i) ==
    IF GroupedWays(text, i) # {}
    THEN LET w == CHOOSE x \in GroupedWays(text, i) :
                      \A y \in GroupedWays(text, i) :
                          y[1] < x[1] \/ (y[1] = x[1] /\ y[2] <= x[2])
         IN  <<i, i + w[1] + 4 * w[2] + 2>>
    ELSE IF PlainWays(text, i) # {}
    THEN LET n == CHOOSE x \in PlainWays(text, i) : \A y \in PlainWays(text, i) : y <= x
         IN  <<i, i + n + 2>>
    ELSE NoMatch

(* Mutant of number_search: the last match of the text, not the first.     *)
number_search_last(text) ==
    LET starts == {i \in 1 .. Len(text) : MatchAt(text, i) # NoMatch}
    IN  IF starts = {} THEN NoMatch
        ELSE MatchAt(text, CHOOSE i \in starts : \A j \in starts : j <= i)

(* number_pattern.search(text): the leftmost match.                        *)
number_search(text) ==
    LET starts == {i \in 1 .. Len(text) : MatchAt(text, i) # NoMatch}
    IN  IF starts = {} THEN NoMatch
        ELSE MatchAt(text, CHOOSE i \in starts : \A j \in starts : i <= j)

(* match.group().replace('.', '').replace(',', '.'), then float(): the     *)
(* digits before the comma read as an integer, the two after as hundredths.*)
RECURSIVE DigitsValue(_, _)
DigitsValue(text, acc) ==
    IF text = <<>> THEN acc
    ELSE IF IsDigit(Head(text)) THEN DigitsValue(Tail(text), 10 * acc + DigitValue(Head(text)))
    ELSE DigitsValue(Tail(text), acc)

MatchValue(text, match) ==
    R(DigitsValue(SubSeq(text, match[1], match[2] - 3), 0) * 100
        + DigitsValue(SubSeq(text, match[2] - 1, match[2]), 0), 100)

IsSpace(c) == c = " "

(* str.strip().                                                            *)
RECURSIVE strip(_)
strip(text) ==
    IF text = <<>> THEN <<>>
    ELSE IF IsSpace(Head(text)) THEN strip(Tail(text))
    ELSE IF IsSpace(text[Len(text)]) THEN strip(SubSeq(text, 1, Len(text) - 1))
    ELSE text

(* model_IRS.extract_numbers_from_cells: a None or empty cell is skipped,  *)
(* a cell with a match gives the value of its first match.                 *)
RECURSIVE extract_numbers_from_cells(_)
extract_numbers_from_cells(cells) ==
    IF cells = <<>> THEN <<>>
    ELSE LET cell == Head(cells)
             match == number_search(strip(cell))
         IN  (IF cell = <<>> \/ match = NoMatch THEN <<>>
              ELSE <<MatchValue(strip(cell), match)>>)
                \o extract_numbers_from_cells(Tail(cells))

(* other_charge.extract_numbers_from_lines.                                *)
RECURSIVE extract_numbers_from_lines(_)
extract_numbers_from_lines(lines) ==
    IF lines = <<>> THEN <<>>
    ELSE LET line == Head(lines)
             match == number_search(line)
         IN  (IF match = NoMatch THEN <<>> ELSE <<MatchValue(line, match)>>)
                \o extract_numbers_from_lines(Tail(lines))

(***************************************************************************)
(* model_IRS: the reporting year of each section and the cutoff.  A page   *)
(* is [text, tables]: page.extract_text() and page.extract_tables() (a     *)
(* table is a sequence of rows, a row a sequence of cells).                *)
(***************************************************************************)
Priority(anexo) ==
    IF anexo = "Anexo_A" THEN 2 ELSE IF anexo = "Anexo_B" THEN 3 ELSE 1

(* _determine_page_anexo_type: None when no section key occurs in the page. *)
PageMatches(page_text, e) ==
    {a \in Anexos :
        LET key_keyword == normalize_text(e.KEY_ANEXO[a])
        IN  key_keyword # <<>> /\ Contains(key_keyword, normalize_text(page_text))}

(* Mutant of determine_page_anexo_type: the highest priority number wins.  *)
determine_page_anexo_type_last(page_text, e) ==
    LET page_matches == PageMatches(page_text, e)
    IN  IF page_matches = {} THEN None
        ELSE CHOOSE a \in page_matches :
                 \A b \in page_matches : Priority(b) <= Priority(a)

determine_page_anexo_type(page_text, e) ==
    LET page_matches == PageMatches(page_text, e)
    IN  IF page_matches = {} THEN None
        ELSE CHOOSE a \in page_matches :
                 \A b \in page_matches : Priority(a) <= Priority(b)

max_header_rows == 4

(* collect_year_by_anexo: per section, the first max_header_rows rows of   *)
(* each of its pages, in page order.                                       *)
RECURSIVE HeaderRows(_, _, _)
HeaderRows(pages, anexo, e) ==
    IF pages = <<>> THEN <<>>
    ELSE LET page == Head(pages)
             mine == determine_page_anexo_type(page.text, e) = anexo
                       /\ page.tables # <<>>
         IN  (IF mine THEN Take(Flatten(page.tables), max_header_rows) ELSE <<>>)
                \o HeaderRows(Tail(pages), anexo, e)

NoYear == 0

(* extract_year_by_anexo: the first cell, row by row, that holds a year.   *)
FirstYear(header_rows) ==
    LET cells == Flatten(header_rows)
    IN  IF \E i \in 1 .. Len(cells) : HasYear(cells[i])
        THEN YearOf(cells[CHOOSE i \in 1 .. Len(cells) :
                             HasYear(cells[i])
                             /\ \A k \in 1 .. (i - 1) : ~HasYear(cells[k])])
        ELSE NoYear

extract_year_by_anexo(pdf, e) ==
    [a \in Anexos |-> FirstYear(HeaderRows(pdf, a, e))]

DateBefore(a, b) ==
    \/ a.year < b.year
    \/ a.year = b.year /\ MonthDayBefore(a, b)

(* Mutant of CutoffYear: the limit date itself still counts as "before".   *)
CutoffYearInclusive(day, model_date) ==
    IF DateBefore(day, model_date) \/ day = model_date
    THEN model_date.year - 2 ELSE model_date.year - 1

CutoffYear(day, model_date) ==
    IF DateBefore(day, model_date) THEN model_date.year - 2 ELSE model_date.year - 1

(* limit_date: raises ValueError when DATE_LIMIT is unset or empty, or     *)
(* when "<year>-<DATE_LIMIT>" is no date.  datetime.today() carries the    *)
(* time of day and model_date is midnight, so today < model_date exactly   *)
(* when today's date is before the limit date.                             *)
limit_date(e, day) ==
    LET cutoff_str == e.DATE_LIMIT
        text == <<cutoff_str.v[2], cutoff_str.v[1], day.year>>
    IN  IF cutoff_str.kind = "unset" THEN [kind |-> "raise", v |-> 0]
        ELSE IF ~Parses(text) THEN [kind |-> "raise", v |-> 0]
        ELSE [kind |-> "value", v |-> CutoffYear(day, strptime(text))]

(* validate_document_year: per section valid / document_year ("" is 0).    *)
AnexoValidation(year, cutoff_year) ==
    IF year = NoYear THEN [valid |-> FALSE, document_year |-> NoYear]
    ELSE IF year >= cutoff_year THEN [valid |-> TRUE, document_year |-> year]
    ELSE [valid |-> FALSE, document_year |-> year]

NoValidation ==
    [kind |-> "idle", cutoff_year |-> 0,
     anexo |-> [a \in Anexos |-> [valid |-> FALSE, document_year |-> NoYear]]]

validate_document_year(pdf, e, day) ==
    LET cutoff_year == limit_date(e, day)
        years_by_anexo == extract_year_by_anexo(pdf, e)
    IN  IF cutoff_year.kind = "raise" THEN [NoValidation EXCEPT !.kind = "raise"]
        ELSE [kind |-> "done", cutoff_year |-> cutoff_year.v,
              anexo |-> [a \in Anexos |->
                           AnexoValidation(years_by_anexo[a], cutoff_year.v)]]

(* Mutant of Considered: sections without a year are not filtered out.     *)
ConsideredAll(validation_result) == Anexos

(* is_document_acceptable: only the sections with a year are considered.   *)
Considered(validation_result) ==
    {a \in Anexos : validation_result.anexo[a].document_year # NoYear}

RECURSIVE SelectNames(_, _)
SelectNames(names, keep) ==
    IF names = <<>> THEN <<>>
    ELSE (IF Head(names) \in keep THEN <<Head(names)>> ELSE <<>>)
            \o SelectNames(Tail(names), keep)

NoSummary == [kind |-> "idle", document_accepted |-> FALSE, failed_anexos |-> <<>>]

is_document_acceptable(pdf, e, day) ==
    LET validation_result == validate_document_year(pdf, e, day)
        filtered == Considered(validation_result)
    IN  IF validation_result.kind = "raise" THEN [NoSummary EXCEPT !.kind = "raise"]
        ELSE [kind |-> "done",
              document_accepted |->
                  \A a \in filtered : validation_result.anexo[a].valid,
              failed_anexos |->
                  SelectNames(AnexoNames,
                              {a \in filtered : ~validation_result.anexo[a].valid})]

(***************************************************************************)
(* model_IRS: the rows of the sections and their figures.                  *)
(***************************************************************************)
CodeText(code) ==
    <<Digits[((code \div 100) % 10) + 1], Digits[((code \div 10) % 10) + 1],
      Digits[(code % 10) + 1]>>

(* _build_anexo_b_tax_rates: the codes whose rate is set to a number, in   *)
(* the order of the code list.                                             *)
anexo_b_tax_rates(e) ==
    SelectSeq([i \in 1 .. Len(Codes) |-> i],
              LAMBDA i : e.FIELD_VALUE_B_tx[i].kind = "number")

(* re.search(rf'\b{code}\b', row_text).                                    *)
HasCode(row_text, code) ==
    \E i \in 1 .. (Len(row_text) - 2) :
        /\ SubSeq(row_text, i, i + 2) = CodeText(code)
        /\ i = 1 \/ ~IsWordChar(row_text[i - 1])
        /\ i + 2 = Len(row_text) \/ ~IsWordChar(row_text[i + 3])

(* " ".join(cell or "" for cell in row).                                   *)
RECURSIVE RowText(_)
RowText(row) ==
    IF row = <<>> THEN <<>>
    ELSE IF Len(row) = 1 THEN row[1]
    ELSE row[1] \o <<" ">> \o RowText(Tail(row))

(* any(cell and cell.strip() for cell in row).                             *)
NonBlank(row) == \E i \in 1 .. Len(row) : strip(row[i]) # <<>>

(* _row_matches_anexo, second result: the matching codes (Anexo B, by      *)
(* their place in the code list).                                          *)
matched_codes(row_text, e) ==
    SelectSeq(anexo_b_tax_rates(e), LAMBDA i : HasCode(row_text, Codes[i]))

(* _get_env_values, normalized: the field markers of a section.            *)
field_keywords(anexo, e) ==
    IF anexo = "Anexo_B" \/ e.FIELD_VALUE[anexo].kind = "unset"
       \/ e.FIELD_VALUE[anexo].v = <<>>
    THEN <<>>
    ELSE <<normalize_text(e.FIELD_VALUE[anexo].v)>>

(* Mutant of row_matches_anexo: every row of a classified page is kept.    *)
row_matches_always(row_text, anexo, e) == TRUE

(* _row_matches_anexo, first result.                                       *)
row_matches_anexo(row_text, anexo, e) ==
    IF anexo = "Anexo_B" THEN matched_codes(row_text, e) # <<>>
    ELSE \E i \in 1 .. Len(field_keywords(anexo, e)) :
             /\ field_keywords(anexo, e)[i] # <<>>
             /\ Contains(field_keywords(anexo, e)[i], normalize_text(row_text))

(* extract_tables_from_pdf, first pass: the section of every page.         *)
page_types(pages, e) ==
    [i \in 1 .. Len(pages) |-> determine_page_anexo_type(pages[i].text, e)]

(* Second pass, one page: its non-blank rows that match its section.       *)
page_rows(page, anexo, e) ==
    SelectSeq(Flatten(page.tables),
              LAMBDA row : NonBlank(row) /\ row_matches_anexo(RowText(row), anexo, e))

(* extract_tables_from_pdf: per section the (page number, rows) of the     *)
(* pages that have kept rows.                                              *)
RECURSIVE PagesOf(_, _, _, _)
PagesOf(pages, anexo, e, page_num) ==
    IF page_num > Len(pages) THEN <<>>
    ELSE LET page == pages[page_num]
             kept == IF page.tables # <<>> /\ page_types(pages, e)[page_num] = anexo
                     THEN page_rows(page, anexo, e) ELSE <<>>
         IN  (IF kept = <<>> THEN <<>> ELSE <<[page |-> page_num, rows |-> kept]>>)
                \o PagesOf(pages, anexo, e, page_num + 1)

extract_tables_from_pdf(pages, e) == [a \in Anexos |-> PagesOf(pages, a, e, 1)]

ValueAt(values, i) == IF i <= Len(values) THEN values[i] ELSE Zero

(* _process_anexo_a: one entry per row that has a number.                  *)
RECURSIVE process_anexo_a(_)
process_anexo_a(rows) ==
    IF rows = <<>> THEN <<>>
    ELSE LET values == extract_numbers_from_cells(Head(rows))
         IN  (IF Len(values) < 1 THEN <<>>
              ELSE <<[Rendimentos |-> ValueAt(values, 1),
                      Retencoes |-> ValueAt(values, 2),
                      Contribuicoes |-> ValueAt(values, 3),
                      Sobretaxa |-> ValueAt(values, 4),
                      Quotizacoes |-> ValueAt(values, 5)]>>)
                \o process_anexo_a(Tail(rows))

(* _process_anexo_b: one entry per row in which a code is found, with the  *)
(* first code of the configured ones that occurs in the row.               *)
RECURSIVE process_anexo_b(_, _)
process_anexo_b(rows, e) ==
    IF rows = <<>> THEN <<>>
    ELSE LET found == matched_codes(RowText(Head(rows)), e)
             values == extract_numbers_from_cells(Head(rows))
         IN  (IF found = <<>> THEN <<>>
              ELSE <<[Codigo |-> Codes[found[1]],
                      Taxa |-> e.FIELD_VALUE_B_tx[found[1]].v,
                      Valor |-> ValueAt(values, 1)]>>)
                \o process_anexo_b(Tail(rows), e)

(* _process_anexo_d: one entry per row that has a number.                  *)
RECURSIVE process_anexo_d(_)
process_anexo_d(rows) ==
    IF rows = <<>> THEN <<>>
    ELSE LET val_numbers == extract_numbers_from_cells(Head(rows))
         IN  (IF val_numbers = <<>> THEN <<>> ELSE <<[Valor |-> val_numbers[1]]>>)
                \o process_anexo_d(Tail(rows))

(* The rows of all the pages of a section, in page order.                  *)
SectionRows(page_data_list) ==
    Flatten([i \in 1 .. Len(page_data_list) |-> page_data_list[i].rows])

Twelfth(x) == RDiv(x, <<12, 1>>)

(* Mutant of RowTotalA: the gross income, nothing subtracted.              *)
RowTotalAGross(r) == r.Rendimentos

RowTotalA(r) ==
    RSub(RSub(RSub(RSub(r.Rendimentos, r.Retencoes), r.Contribuicoes), r.Sobretaxa),
         r.Quotizacoes)

(* _create_anexo_a_dataframe: every entry with its Total and Mensal.       *)
create_anexo_a_dataframe(data) ==
    [i \in 1 .. Len(data) |->
        [entry |-> data[i], Total |-> RowTotalA(data[i]),
         Mensal |-> Twelfth(RowTotalA(data[i]))]]

(* Mutant of create_anexo_b_dataframe: one row per entry, no summary.      *)
create_anexo_b_dataframe_rows(data) ==
    [i \in 1 .. Len(data) |->
        [Taxa |-> data[i].Taxa, Valor |-> data[i].Valor,
         Total |-> RMul(data[i].Taxa, data[i].Valor),
         Mensal |-> Twelfth(RMul(data[i].Taxa, data[i].Valor))]]

(* _create_anexo_b_dataframe: no row, or the single summary row.           *)
create_anexo_b_dataframe(data) ==
    IF data = <<>> THEN <<>>
    ELSE <<[Taxa |-> Zero,
            Valor |-> RSum([i \in 1 .. Len(data) |-> data[i].Valor]),
            Total |-> RSum([i \in 1 .. Len(data) |-> RMul(data[i].Taxa, data[i].Valor)]),
            Mensal |-> RSum([i \in 1 .. Len(data) |->
                                Twelfth(RMul(data[i].Taxa, data[i].Valor))])]>>

(* Mutant of create_anexo_d_dataframe: the summary row after the entries'  *)
(* own rows.                                                               *)
create_anexo_d_dataframe_appended(data) ==
    IF data = <<>> THEN <<>>
    ELSE [i \in 1 .. Len(data) |-> [Valor |-> data[i].Valor, Mensal |-> Twelfth(data[i].Valor)]]
            \o <<[Valor |-> RSum([i \in 1 .. Len(data) |-> data[i].Valor]),
                  Mensal |-> RSum([i \in 1 .. Len(data) |-> Twelfth(data[i].Valor)])]>>

(* _create_anexo_d_dataframe: no row, or the single summary row.           *)
create_anexo_d_dataframe(data) ==
    IF data = <<>> THEN <<>>
    ELSE <<[Valor |-> RSum([i \in 1 .. Len(data) |-> data[i].Valor]),
            Mensal |-> RSum([i \in 1 .. Len(data) |-> Twelfth(data[i].Valor)])]>>

(* The entries of the three sections and the three tables made of them.   *)
Frames(data_a, data_b, data_d) ==
    [data_a |-> data_a, data_b |-> data_b, data_d |-> data_d,
     df_a |-> create_anexo_a_dataframe(data_a),
     df_b |-> create_anexo_b_dataframe(data_b),
     df_d |-> create_anexo_d_dataframe(data_d)]

(* convert_to_dataframes.                                                  *)
convert_to_dataframes(tables_by_anexo, e) ==
    Frames(process_anexo_a(SectionRows(tables_by_anexo["Anexo_A"])),
           process_anexo_b(SectionRows(tables_by_anexo["Anexo_B"]), e),
           process_anexo_d(SectionRows(tables_by_anexo["Anexo_D"])))

NoTables == [a \in Anexos |-> <<>>]

NoFrames == Frames(<<>>, <<>>, <<>>)

(* What process_pdf_IRS returns for the extracted tables: the tables made  *)
(* of them.                                                                *)
IncomeData(pages, e, tables_by_anexo) ==
    [kind |-> "data", extracted |-> TRUE, failed_anexos |-> <<>>,
     page_types |-> page_types(pages, e), tables |-> tables_by_anexo,
     frames |-> convert_to_dataframes(tables_by_anexo, e)]

NoData(kind, failed_anexos) ==
    [kind |-> kind, extracted |-> FALSE, failed_anexos |-> failed_anexos,
     page_types |-> <<>>, tables |-> NoTables, frames |-> NoFrames]

(* The branch of process_pdf_IRS on the validation summary: the tables are *)
(* extracted only when it is "Valido".                                     *)
OnSummary(validation_summary, pages, e) ==
    IF validation_summary.kind = "raise" THEN NoData("raise", <<>>)
    ELSE IF validation_summary.document_accepted
    THEN IncomeData(pages, e, extract_tables_from_pdf(pages, e))
    ELSE NoData("summary", validation_summary.failed_anexos)

(* Mutant of process_pdf_IRS: the tables are extracted and returned        *)
(* whatever the validation says.                                           *)
process_pdf_IRS_unchecked(pages, e, day) ==
    IncomeData(pages, e, extract_tables_from_pdf(pages, e))

(* process_pdf_IRS: the three tables when the year validation says         *)
(* "Valido", its rejection text otherwise; limit_date may raise.           *)
process_pdf_IRS(pages, e, day) ==
    OnSummary(is_document_acceptable(pages, e, day), pages, e)

(* Income documents.  Each section is absent, or has one page whose table  *)
(* shows a year in its first rows, shows none, or shows one only below the *)
(* first max_header_rows rows.                                             *)
DigitsOf(n) ==
    <<Digits[((n \div 1000) % 10) + 1], Digits[((n \div 100) % 10) + 1],
      Digits[((n \div 10) % 10) + 1], Digits[(n % 10) + 1]>>

Page(text, rows) == [text |-> text, tables |-> IF rows = <<>> THEN <<>> ELSE <<rows>>]

SectionText(anexo) ==
    IF anexo = "Anexo_A" THEN <<"x", " ", "k", "A">>
    ELSE IF anexo = "Anexo_B" THEN <<"K", "B", " ", "x">>
    ELSE <<"K", "E'", "d">>

Filler == <<  <<"x">>, <<>>  >>

YearRow(y) == <<  <<>>, <<"A", "n", "o", " ">> \o DigitsOf(y)  >>

YearChoices == {BaseYear - 3, BaseYear - 2, BaseYear - 1}

SectionPages(anexo) ==
    {<<>>,
     <<Page(SectionText(anexo), <<Filler, <<  <<"1">> \o DigitsOf(BaseYear)  >> >>)>>,
     <<Page(SectionText(anexo),
            <<Filler, Filler, Filler, Filler, YearRow(BaseYear - 1)>>)>>}
        \cup {<<Page(SectionText(anexo), <<Filler, YearRow(y)>>)>> : y \in YearChoices}

SpecialDocs ==
    { <<Page(SectionText("Anexo_A") \o <<" ">> \o SectionText("Anexo_D"),
             <<YearRow(BaseYear - 3)>>),
        Page(SectionText("Anexo_B"), <<YearRow(BaseYear - 1)>>)>>,
      <<Page(<<"x">>, <<YearRow(BaseYear - 3)>>),
        Page(SectionText("Anexo_A"), <<>>),
        Page(SectionText("Anexo_A"), <<Filler>>),
        Page(SectionText("Anexo_A"), <<YearRow(BaseYear - 1), YearRow(BaseYear - 3)>>)>> }

YearDocs ==
    {a \o b \o d : a \in SectionPages("Anexo_A"), b \in SectionPages("Anexo_B"),
                   d \in SectionPages("Anexo_D")}
        \cup SpecialDocs

EnvChoicesYear ==
    {[BaseEnv EXCEPT !.DATE_LIMIT = dl] :
        dl \in {EnvText(<<6, 15>>), EnvText(<<6, 16>>), EnvText(<<1, 1>>),
                EnvText(<<2, 30>>), Unset}}
        \cup {[BaseEnv EXCEPT !.KEY_ANEXO["Anexo_B"] = <<>>]}

IdleYear == doc = <<>> /\ validation = NoValidation /\ summary = NoSummary

ValidateDocumentYear ==
    /\ validation' = validate_document_year(doc, env, today)
    /\ UNCHANGED <<env, today, formVars, loanVars, ageVars, doc, summary, analysisVars, extractVars>>

IsDocumentAcceptable ==
    /\ summary' = is_document_acceptable(doc, env, today)
    /\ UNCHANGED <<env, today, formVars, loanVars, ageVars, doc, validation, analysisVars, extractVars>>

(***************************************************************************)
(* loan_analysis_txEsforco.  The call is a sequence of statements; pc says *)
(* which one is next.  A call ends "returned" (a result) or "raised" (a    *)
(* LoanAnalysisError carrying run.error).                                  *)
(***************************************************************************)
NotNumber == [kind |-> "text", v |-> <<0, 1>>]

Value(x) == [kind |-> "value", v |-> x]

Raises == [kind |-> "raise", v |-> Zero]

(* get_env_float(var_name, default): the default for an unset variable     *)
(* (0.0 is a default, None is not), an error for an unset variable without *)
(* default and for a text float() rejects.                                 *)
get_env_float(x, default) ==
    IF x.kind = "unset"
    THEN (IF default.kind = "number" THEN Value(default.v) ELSE Raises)
    ELSE IF x.kind = "number" THEN Value(x.v)
    ELSE Raises

get_limit_rate(e) == get_env_float(e.LIMITRATE, Unset)

ErrLoan == "Valor do emprestimo deve ser maior que zero"

ErrConfig == "not defined in environment variables / must be a valid number"

ErrCalc == "Erro no calculo do emprestimo"

ErrDocument == "Documento nao aceite - Faca download de um documento mais recente"

ErrIncome == "Rendimento mensal insuficiente para analise"

ErrGeneric == "Introduzir um estado civil valido ou corrigir as datas de nascimento"

(* The amortization function a call of get_monthly_loan_payment uses.      *)
Regime(rate, TXFIXA) == IF rate = TXFIXA THEN "actual" ELSE "stress"

(* Mutant of get_monthly_loan_payment: the loan is amortized over the term *)
(* selected in the form.                                                   *)
get_monthly_loan_payment_selected(rate, spread, loan, birthdate_str, marital_status, e, lookup, day) ==
    [regime |-> Regime(rate, EnvFloat(e.TXFIXA, Zero)),
     call |-> IF rate = EnvFloat(e.TXFIXA, Zero)
              THEN intCapLoanArgs(rate, spread, loan, req.loan_term, e, lookup)
              ELSE intCapLoanStressArgs(rate, spread, loan, req.loan_term, e, lookup)]

(* get_monthly_loan_payment up to the call of npf.pmt: which function is   *)
(* called and how its call ends.  calculate_age is reached only after the  *)
(* rate and the amount; an exception leaving it leaves the function too.   *)
get_monthly_loan_payment(rate, spread, loan, birthdate_str, marital_status, e, lookup, day) ==
    LET TXFIXA == get_env_float(e.TXFIXA, Number(Zero))
        term == calculate_age(birthdate_str, marital_status, day)
        regime == Regime(rate, TXFIXA.v)
        reached == IF regime = "actual"
                   THEN intCapLoanArgs(rate, spread, loan, 1, e, lookup)
                   ELSE intCapLoanStressArgs(rate, spread, loan, 1, e, lookup)
        call == IF regime = "actual"
                THEN intCapLoanArgs(rate, spread, loan, term.term, e, lookup)
                ELSE intCapLoanStressArgs(rate, spread, loan, term.term, e, lookup)
    IN  IF TXFIXA.kind = "raise" THEN [regime |-> "none", call |-> CallEnds("raise")]
        ELSE IF term.kind = "raise" /\ reached.kind = "ok"
        THEN [regime |-> regime, call |-> CallEnds("raise")]
        ELSE [regime |-> regime, call |-> call]

(* -npf.pmt of a call.  Terms are 60 to 480 months, so the exact amount of *)
(* an interest-bearing loan is beyond the model's integers; it lies        *)
(* strictly between the first month's interest pv*r and pv*r + pv/nper,    *)
(* and the model takes amounts of that interval.  At rate 0 the amount is  *)
(* exact.                                                                  *)
PaymentAmounts(call) ==
    IF call.monthly_rate = Zero
    THEN {PrestacaoMensal(call.monthly_rate, call.nper, call.pv)}
    ELSE {RAdd(RMul(<<call.pv, 1>>, call.monthly_rate),
               RDiv(<<call.pv, 1>>, <<k * call.nper, 1>>)) : k \in {2, 4}}

(* Mutant of extract_matching_lines: the marker is looked for in the line  *)
(* as written, without normalizing either.                                 *)
RECURSIVE extract_matching_lines_exact(_, _)
extract_matching_lines_exact(pages, search_value) ==
    IF pages = <<>> THEN <<>>
    ELSE SelectSeq(Head(pages), LAMBDA line : Contains(search_value, line))
            \o extract_matching_lines_exact(Tail(pages), search_value)

(* other_charge.extract_matching_lines: the lines, page by page, whose     *)
(* normalized text contains the normalized marker.  A page is the sequence *)
(* of the lines of its text (none for a page without text).                *)
RECURSIVE extract_matching_lines(_, _)
extract_matching_lines(pages, search_value) ==
    IF pages = <<>> THEN <<>>
    ELSE SelectSeq(Head(pages),
                   LAMBDA line : Contains(normalize_text(search_value),
                                          normalize_text(line)))
            \o extract_matching_lines(Tail(pages), search_value)

(* process_pdf_CRC: the amounts of the lines matching BANK_CHARGE, or None *)
(* when BANK_CHARGE is unset or the document cannot be read.               *)
process_pdf_CRC(crc, e) ==
    IF e.BANK_CHARGE.kind = "unset" \/ ~crc.readable
    THEN [kind |-> "none", amounts |-> <<>>]
    ELSE [kind |-> "list",
          amounts |-> extract_numbers_from_lines(
                          extract_matching_lines(crc.pages, e.BANK_CHARGE.v))]

(* get_monthly_bank_charge: the sum of the amounts.  Of None,              *)
(* pandas.to_numeric makes a not-a-number whose sum is returned, or the    *)
(* sum raises and None is returned.                                        *)
get_monthly_bank_charge(crc, e) ==
    LET monthly_charge == process_pdf_CRC(crc, e)
    IN  IF monthly_charge.kind = "none"
        THEN {[kind |-> "none", v |-> Zero], [kind |-> "nan", v |-> Zero]}
        ELSE {Value(RSum(monthly_charge.amounts))}

NoIncome == [a \in Anexos |-> Zero]

MensalSum(df) == RSum([i \in 1 .. Len(df) |-> df[i].Mensal])

AnexoIncomes(frames) ==
    [a \in Anexos |->
        IF a = "Anexo_A" THEN MensalSum(frames.df_a)
        ELSE IF a = "Anexo_B" THEN MensalSum(frames.df_b)
        ELSE MensalSum(frames.df_d)]

TotalMensal(anexo_incomes) == RSum([i \in 1 .. 3 |-> anexo_incomes[AnexoNames[i]]])

(* The result of get_total_monthly_income for what process_pdf_IRS gave.   *)
IncomeOf(irs) ==
    IF irs.kind = "data"
    THEN [kind |-> "value", irs |-> irs, mensal |-> AnexoIncomes(irs.frames),
          total_mensal |-> TotalMensal(AnexoIncomes(irs.frames))]
    ELSE [kind |-> "raise", irs |-> irs, mensal |-> NoIncome, total_mensal |-> Zero]

(* get_total_monthly_income: the sum of the three tables' "Mensal" (0 for  *)
(* an empty table); unpacking a rejection text, like every other           *)
(* exception, is ErrDocument.                                              *)
get_total_monthly_income(pages, e, day) == IncomeOf(process_pdf_IRS(pages, e, day))

(* Line 194; a not-a-number charge makes the ratio a not-a-number.         *)
tx_esforco(monthly_payment, monthly_charges, monthly_income) ==
    IF monthly_charges.kind = "nan" THEN [kind |-> "nan", v |-> Zero]
    ELSE Value(RDiv(RAdd(monthly_payment, monthly_charges.v), monthly_income))

(* Mutant of approved: a ratio equal to the ceiling is not approved.       *)
approved_below(ratio, tx_limit) == ratio.kind = "value" /\ RLt(ratio.v, tx_limit)

(* Line 196; every comparison with a not-a-number is false.                *)
approved(ratio, tx_limit) == ratio.kind = "value" /\ RLe(ratio.v, tx_limit)

(* Mutant of Taxa: the stress add-on is never shown.                       *)
TaxaNominal(rate, spread, TXFIXA, TXSTRESS) == RAdd(rate, spread)

(* Mutant of insufficient_income: only a negative income is rejected.      *)
insufficient_income_negative(monthly_income) == RLt(monthly_income, Zero)

(* Line 187.                                                               *)
insufficient_income(monthly_income) == RLe(monthly_income, Zero)

(* Line 225-228, the annual rate the result shows.                         *)
Taxa(rate, spread, TXFIXA, TXSTRESS) ==
    IF rate = TXFIXA THEN RAdd(rate, spread)
    ELSE RAdd(RAdd(rate, spread), TXSTRESS)

NoRun ==
    [TXFIXA |-> Zero, TXSTRESS |-> Zero, tx_limit |-> Zero, regime |-> "none",
     call |-> NoCall, monthly_payment |-> Zero,
     monthly_charges |-> [kind |-> "unset", v |-> Zero],
     irs |-> [kind |-> "none", extracted |-> FALSE],
     mensal |-> NoIncome, monthly_income |-> Zero,
     tx_esforco |-> [kind |-> "unset", v |-> Zero], approved |-> FALSE,
     taxa |-> Zero, error |-> ""]

Raise(message) ==
    /\ pc' = "raised"
    /\ run' = [run EXCEPT !.error = message]

Times(k, x) == RMul(<<k, 1>>, x)

AnalysisRates == {Zero, RateStep, Times(2, RateStep)}

AnalysisSpreads == {Zero, RateStep}

Applicants ==
    {[birthdate_str |-> Text(<<15, 6, BaseYear - 30>>), marital_status |-> "solteiro"],
     [birthdate_str |-> Text(<<16, 6, BaseYear - 71>>), marital_status |-> "solteiro"],
     [birthdate_str |-> List(<<  <<15, 6, BaseYear - 30>>, <<15, 6, BaseYear - 71>>  >>),
      marital_status |-> "casado"],
     [birthdate_str |-> Text(<<15, 6, BaseYear - 30>>), marital_status |-> "divorciado"]}

Unreadable == [readable |-> FALSE, pages |-> <<>>]

ChargePages(pages) == [readable |-> TRUE, pages |-> pages]

ChargeLine == <<"M", " ", "0", ",", "0", "5">>

ChargeDocs == {Unreadable, ChargePages(<<>>), ChargePages(<<  <<ChargeLine>>  >>)}

Amount(units, tenths) == <<Digits[units + 1], ",", Digits[tenths + 1], "0">>

(* The rows of a section's table: a filler, the year, then a figure row.   *)
RowA(amount) == <<  <<"F", "a">>, amount  >>

RowB(code, amount) == <<CodeText(code), <<"x">>, amount>>

RowD(amount) == <<  <<"F", "E'">>, amount  >>

IncomePage(anexo, year, row) == Page(SectionText(anexo), <<Filler, YearRow(year), row>>)

RecentPages == <<IncomePage("Anexo_A", BaseYear - 1, RowA(Amount(2, 0)))>>

OldPages == <<IncomePage("Anexo_A", BaseYear - 2, RowA(Amount(2, 0)))>>

AllSections ==
    <<IncomePage("Anexo_A", BaseYear - 1, RowA(Amount(0, 6))),
      IncomePage("Anexo_B", BaseYear - 1, RowB(402, Amount(0, 8))),
      IncomePage("Anexo_D", BaseYear, RowD(Amount(0, 2)))>>

(* Withholdings above the income: a negative Anexo A total.               *)
NegativePages ==
    <<IncomePage("Anexo_A", BaseYear - 1, <<  <<"F", "a">>, Amount(1, 0), Amount(2, 0)  >>)>>

IncomeDocs == {RecentPages, AllSections, <<>>, OldPages, NegativePages}

EnvChoicesAnalysis ==
    {BaseEnv,
     [BaseEnv EXCEPT !.TXFIXA = Unset, !.TXSTRESS = Unset,
                     !.SPREAD = <<Unset, Unset, Unset>>],
     [BaseEnv EXCEPT !.LIMITRATE = Unset],
     [BaseEnv EXCEPT !.TXSTRESS = NotNumber],
     [BaseEnv EXCEPT !.BANK_CHARGE = Unset],
     [BaseEnv EXCEPT !.DATE_LIMIT = Unset]}

(* The term the applicant selects in the form (app.py, lines 135-141): 5   *)
(* years up to the maximum, when calculate_age gave one.  It is not among  *)
(* the arguments of loan_analysis (lines 260-268).                         *)
FormTerms(applicant) ==
    IF calculate_age(applicant.birthdate_str, applicant.marital_status, Today0).kind = "term"
    THEN {MinYears * MonthsPerYear,
          calculate_age(applicant.birthdate_str, applicant.marital_status, Today0).term}
    ELSE {NoTerm}

Arguments ==
    [rate : AnalysisRates, spread : AnalysisSpreads, loan : LoanInputs,
     applicant : Applicants, lookup : LookupChoices,
     crc : ChargeDocs, irs : IncomeDocs, loan_term : {NoTerm}]

Requests ==
    UNION {{[r EXCEPT !.loan_term = t] : t \in FormTerms(r.applicant)} : r \in Arguments}

NoRequest ==
    [rate |-> Zero, spread |-> Zero, loan |-> [type |-> "int", val |-> 0],
     applicant |-> NoAgeIn, lookup |-> [rows |-> FALSE, rates |-> {}],
     crc |-> Unreadable, irs |-> <<>>, loan_term |-> NoTerm]

IdleAnalysis == req = NoRequest /\ pc = "idle" /\ run = NoRun

(* Lines 160-161.                                                          *)
ReadRates ==
    /\ pc = "start"
    /\ LET TXFIXA == get_env_float(env.TXFIXA, Number(Zero))
           TXSTRESS == get_env_float(env.TXSTRESS, Number(Zero))
       IN  IF TXFIXA.kind = "raise" \/ TXSTRESS.kind = "raise"
           THEN Raise(ErrConfig)
           ELSE /\ pc' = "validate"
                /\ run' = [run EXCEPT !.TXFIXA = TXFIXA.v, !.TXSTRESS = TXSTRESS.v]
    /\ UNCHANGED <<env, today, formVars, loanVars, ageVars, yearVars, extractVars, req>>

(* Lines 166-167.                                                          *)
ValidateLoan ==
    /\ pc = "validate"
    /\ IF req.loan.val <= 0 THEN Raise(ErrLoan)
       ELSE pc' = "limit" /\ UNCHANGED run
    /\ UNCHANGED <<env, today, formVars, loanVars, ageVars, yearVars, extractVars, req>>

(* Line 170.                                                               *)
GetLimitRate ==
    /\ pc = "limit"
    /\ LET tx_limit == get_limit_rate(env)
       IN  IF tx_limit.kind = "raise" THEN Raise(ErrConfig)
           ELSE /\ pc' = "payment"
                /\ run' = [run EXCEPT !.tx_limit = tx_limit.v]
    /\ UNCHANGED <<env, today, formVars, loanVars, ageVars, yearVars, extractVars, req>>

(* Lines 174-175: float(None) is a TypeError, reported by line 244.        *)
GetMonthlyLoanPayment ==
    /\ pc = "payment"
    /\ LET out == get_monthly_loan_payment(req.rate, req.spread, req.loan,
                      req.applicant.birthdate_str, req.applicant.marital_status,
                      env, req.lookup, today)
           chosen == [run EXCEPT !.regime = out.regime, !.call = out.call]
       IN  IF out.call.kind = "ok"
           THEN /\ pc' = "charges"
                /\ \E amount \in PaymentAmounts(out.call) :
                       run' = [chosen EXCEPT !.monthly_payment = amount]
           ELSE /\ pc' = "raised"
                /\ run' = [chosen EXCEPT !.error =
                             IF out.call.kind = "raise" THEN ErrCalc ELSE ErrGeneric]
    /\ UNCHANGED <<env, today, formVars, loanVars, ageVars, yearVars, extractVars, req>>

(* Line 178.                                                               *)
GetMonthlyBankCharge ==
    /\ pc = "charges"
    /\ pc' = "income"
    /\ \E monthly_charges \in get_monthly_bank_charge(req.crc, env) :
           run' = [run EXCEPT !.monthly_charges = monthly_charges]
    /\ UNCHANGED <<env, today, formVars, loanVars, ageVars, yearVars, extractVars, req>>

(* Lines 181-184, for the outcome of get_total_monthly_income.            *)
OnIncome(income_data) ==
    IF income_data.kind = "raise"
    THEN /\ pc' = "raised"
         /\ run' = [run EXCEPT !.irs = [kind |-> income_data.irs.kind,
                                        extracted |-> income_data.irs.extracted],
                               !.error = ErrDocument]
    ELSE /\ pc' = "check"
         /\ run' = [run EXCEPT !.irs = [kind |-> income_data.irs.kind,
                                        extracted |-> income_data.irs.extracted],
                               !.mensal = income_data.mensal,
                               !.monthly_income = income_data.total_mensal]

(* Lines 181-184.                                                          *)
GetTotalMonthlyIncome ==
    /\ pc = "income"
    /\ OnIncome(get_total_monthly_income(req.irs, env, today))
    /\ UNCHANGED <<env, today, formVars, loanVars, ageVars, yearVars, extractVars, req>>

(* Lines 187-191.                                                          *)
ValidateIncome ==
    /\ pc = "check"
    /\ IF insufficient_income(run.monthly_income) THEN Raise(ErrIncome)
       ELSE pc' = "decide" /\ UNCHANGED run
    /\ UNCHANGED <<env, today, formVars, loanVars, ageVars, yearVars, extractVars, req>>

(* Lines 194-239: float(None) of a missing charge is a TypeError, reported *)
(* by line 244.                                                            *)
Decide ==
    /\ pc = "decide"
    /\ IF run.monthly_charges.kind = "none" THEN Raise(ErrGeneric)
       ELSE LET ratio == tx_esforco(run.monthly_payment, run.monthly_charges,
                                    run.monthly_income)
            IN  /\ pc' = "returned"
                /\ run' = [run EXCEPT
                             !.tx_esforco = ratio,
                             !.approved = approved(ratio, run.tx_limit),
                             !.taxa = Taxa(req.rate, req.spread,
                                           run.TXFIXA, run.TXSTRESS)]
    /\ UNCHANGED <<env, today, formVars, loanVars, ageVars, yearVars, extractVars, req>>

(***************************************************************************)
(* The numeric extractors applied to a row of cells and to lines of text.  *)
(***************************************************************************)
NotRun == [done |-> FALSE, values |-> <<>>]

Returned(values) == [done |-> TRUE, values |-> values]

SampleTexts ==
    {<<>>,
     <<"1", ".", "2", "3", "4", ",", "5", "6">>,
     <<"5", "6", ",", "0", "0">>,
     <<"a", "b">>,
     <<"1", "2", "3", "4", ",", "5", "6">>,
     <<"1", ",", "2", "3", "4">>,
     <<"x", "1", "2", ",", "5", "0", "x", "3", ",", "0", "0">>,
     <<"1", ".", "2", "3", ",", "4", "5">>,
     <<" ", "7", ",", "0", "0", " ">>,
     <<"4", "0", "1">>,
     <<"1", "2", ",", "5">>,
     <<"1", "2", "3", "4", ".", "5", "6", "7", ",", "8", "9">>,
     <<" ">>,
     <<"1", "2", ".", "3", "4", "5", ",", "6", "7">>}

MaxCells == 2

NumberInputs == UNION {[1 .. n -> SampleTexts] : n \in 0 .. MaxCells}

IdleNumbers == numIn = <<>> /\ numOut = [cells |-> NotRun, lines |-> NotRun]

ExtractNumbersFromCells ==
    /\ numOut' = [numOut EXCEPT !.cells = Returned(extract_numbers_from_cells(numIn))]
    /\ UNCHANGED <<env, today, formVars, loanVars, ageVars, yearVars, analysisVars,
                   numIn, extraction, chargeVars>>

ExtractNumbersFromLines ==
    /\ numOut' = [numOut EXCEPT !.lines = Returned(extract_numbers_from_lines(numIn))]
    /\ UNCHANGED <<env, today, formVars, loanVars, ageVars, yearVars, analysisVars,
                   numIn, extraction, chargeVars>>

(***************************************************************************)
(* The charges document read on its own: process_pdf_CRC, then             *)
(* get_monthly_bank_charge.                                                *)
(***************************************************************************)
ChargeLines ==
    {ChargeLine,
     <<"x", "m", "1", ".", "0", "0", "0", ",", "0", "0", " ", "2", ",", "0", "0">>,
     <<"e'", "M">>,
     <<"x", " ", "3", ",", "0", "0">>,
     <<"4", ",", "0", "0">>,
     <<>>}

MaxLines == 2

LinePages == UNION {[1 .. n -> ChargeLines] : n \in 0 .. MaxLines}

ChargeInputs ==
    {ChargePages(<<page>>) : page \in LinePages}
        \cup {ChargePages(<<  <<a>>, <<b>>  >>) : a \in ChargeLines, b \in ChargeLines}
        \cup {Unreadable}

EnvChoicesCharges ==
    {BaseEnv, [BaseEnv EXCEPT !.BANK_CHARGE = Unset],
     [BaseEnv EXCEPT !.BANK_CHARGE = EnvText(<<>>)],
     [BaseEnv EXCEPT !.BANK_CHARGE = EnvText(<<"E'", "m">>)]}

NoCharge ==
    [list |-> [kind |-> "idle", amounts |-> <<>>],
     sum |-> [kind |-> "unset", v |-> Zero]]

IdleCharges == crcDoc = Unreadable /\ chargeOut = NoCharge

ProcessPdfCRC ==
    /\ chargeOut' = [chargeOut EXCEPT !.list = process_pdf_CRC(crcDoc, env)]
    /\ UNCHANGED <<env, today, formVars, loanVars, ageVars, yearVars, analysisVars,
                   numberVars, extraction, crcDoc>>

MonthlyBankCharge ==
    /\ \E monthly_sum \in get_monthly_bank_charge(crcDoc, env) :
           chargeOut' = [chargeOut EXCEPT !.sum = monthly_sum]
    /\ UNCHANGED <<env, today, formVars, loanVars, ageVars, yearVars, analysisVars,
                   numberVars, extraction, crcDoc>>

(***************************************************************************)
(* The income tables (SpecTables): the pages of doc are classified, their  *)
(* rows filtered, and the kept rows turned into the three tables.          *)
(***************************************************************************)
MaxPages == 2

Cell(n) == <<Digits[n + 1], ",", "0", "0">>

PagePool ==
    {Page(SectionText("Anexo_A") \o <<" ">> \o SectionText("Anexo_D"),
          <<YearRow(BaseYear - 1), RowA(Cell(1)), RowD(Amount(0, 2))>>),
     Page(SectionText("Anexo_B") \o <<" ">> \o SectionText("Anexo_A"),
          <<YearRow(BaseYear - 2),
            <<  <<"F", "a">>, Cell(3), <<"x">>, Cell(1)  >>,
            <<  <<"f", "A'">>, <<"x">>  >>,
            <<  <<"F", "a">>, Cell(9), Cell(1), Cell(1), Cell(2), Cell(1), Cell(7)  >>,
            RowB(401, Cell(5))>>),
     Page(SectionText("Anexo_B"),
          <<YearRow(BaseYear - 1),
            RowB(401, Amount(0, 8)),
            <<  <<"4", "0", "2", " ", "4", "0", "1">>, Cell(1)  >>,
            <<  <<"1", ".", "4", "0", "1", ",", "0", "0">>  >>,
            <<  <<"4", "0", "1", "0">>, Cell(2)  >>,
            RowB(459, Cell(4)),
            <<  <<"4", "0", "2">>, <<"x">>  >>,
            <<  <<>>, <<" ">>  >>  >>),
     Page(<<"x">>, <<YearRow(BaseYear - 1), RowA(Cell(1)), RowB(401, Cell(1)),
                     RowD(Cell(1))>>),
     Page(SectionText("Anexo_D"),
          <<RowD(Amount(0, 2)), <<  <<"f", "e'">>, <<"x">>  >>, RowD(Cell(6)),
            <<  <<>>, <<>>  >>, RowA(Cell(1))>>),
     Page(SectionText("Anexo_A"), <<>>)}

RECURSIVE SeqsUpTo(_, _)
SeqsUpTo(S, n) ==
    IF n = 0 THEN {<<>>}
    ELSE SeqsUpTo(S, n - 1)
            \cup {Append(s, x) : s \in {t \in SeqsUpTo(S, n - 1) : Len(t) = n - 1}, x \in S}

TableDocs == SeqsUpTo(PagePool, MaxPages)

EnvChoicesTables ==
    {BaseEnv,
     [BaseEnv EXCEPT !.KEY_ANEXO["Anexo_D"] = <<>>],
     [BaseEnv EXCEPT !.FIELD_VALUE["Anexo_A"] = Unset,
                     !.FIELD_VALUE["Anexo_D"] = EnvText(<<>>)],
     [BaseEnv EXCEPT !.FIELD_VALUE_B_tx[1] = EnvText(<<"x">>),
                     !.FIELD_VALUE_B_tx[3] = Number(R(1, 4))]}

NoExtraction ==
    [kind |-> "idle", page_types |-> <<>>, tables |-> NoTables, frames |-> NoFrames,
     collected |-> FALSE, years |-> [a \in Anexos |-> NoYear],
     mensal |-> NoIncome, total_mensal |-> Zero]

IdleTables == extraction = NoExtraction

(* PDFDataExtractor.extract_tables_from_pdf.                               *)
ExtractTablesFromPdf ==
    /\ extraction' = [extraction EXCEPT !.kind = "tables",
                                        !.page_types = page_types(doc, env),
                                        !.tables = extract_tables_from_pdf(doc, env),
                                        !.frames = NoFrames]
    /\ UNCHANGED <<env, today, formVars, loanVars, ageVars, yearVars, analysisVars,
                   numberVars, chargeVars>>

(* PDFDataExtractor.convert_to_dataframes, on the extracted tables.        *)
ConvertToDataframes ==
    /\ extraction.kind = "tables"
    /\ extraction' = [extraction EXCEPT !.kind = "frames",
                                        !.frames = convert_to_dataframes(extraction.tables, env)]
    /\ UNCHANGED <<env, today, formVars, loanVars, ageVars, yearVars, analysisVars,
                   numberVars, chargeVars>>

Summed(ex, anexo_incomes) ==
    [ex EXCEPT !.kind = "income", !.mensal = anexo_incomes,
               !.total_mensal = TotalMensal(anexo_incomes)]

(* get_total_monthly_income lines 95-128, on the three tables.             *)
ExtractMonthlyIncome ==
    /\ extraction.kind = "frames"
    /\ extraction' = Summed(extraction, AnexoIncomes(extraction.frames))
    /\ UNCHANGED <<env, today, formVars, loanVars, ageVars, yearVars, analysisVars,
                   numberVars, chargeVars>>

(* collect_year_by_anexo and extract_year_by_anexo.                        *)
ExtractYearByAnexo ==
    /\ extraction' = [extraction EXCEPT !.collected = TRUE,
                                        !.years = extract_year_by_anexo(doc, env)]
    /\ UNCHANGED <<env, today, formVars, loanVars, ageVars, yearVars, analysisVars,
                   numberVars, chargeVars>>

(***************************************************************************)
(* FrontEnd/app.py, the "Pedir Simulacao" button (lines 246-302).  Every   *)
(* browser session runs the script in its own thread of the one server     *)
(* process, so all sessions share the working directory.  A file holds the *)
(* upload of the session that wrote it last ({} when it does not exist).   *)
(***************************************************************************)
MaxSessions == 2

Sessions == 1 .. MaxSessions

temp_irs == "temp_IRS.pdf"

temp_crc == "temp_CRC.pdf"

TempFiles == <<temp_irs, temp_crc>>

NotRead == [done |-> FALSE, upload |-> {}]

ReadOf(file) == [done |-> TRUE, upload |-> files[file]]

NoSession ==
    [pc |-> "idle", uploaded |-> FALSE, crc |-> NotRead, irs |-> NotRead,
     file |-> 1, outcome |-> "none"]

IdleForm == files = [f \in {temp_irs, temp_crc} |-> {}] /\ form = [s \in Sessions |-> NoSession]

Goto(s, label) == form' = [form EXCEPT ![s].pc = label]

(* An exception inside the try: its handler reports it, then the finally   *)
(* clause runs.                                                            *)
Except(s, outcome) ==
    form' = [form EXCEPT ![s].pc = "finally", ![s].file = 1, ![s].outcome = outcome]

FormUnchanged ==
    UNCHANGED <<env, today, loanVars, ageVars, yearVars, analysisVars, extractVars>>

(* Lines 246-249: without both uploads nothing is written.                 *)
Analisar ==
    /\ \E s \in Sessions :
           /\ form[s].pc = "idle"
           /\ IF form[s].uploaded THEN Goto(s, "write_irs")
              ELSE form' = [form EXCEPT ![s].pc = "done", ![s].outcome = "asked"]
    /\ UNCHANGED files
    /\ FormUnchanged

(* open(name, "wb") and write: the file then holds this session's upload;  *)
(* a failure leaves the file as it was, or created with part of the upload.*)
WriteCopy(s, name, next) ==
    \/ /\ files' = [files EXCEPT ![name] = {s}]
       /\ Goto(s, next)
    \/ /\ files' \in {files, [files EXCEPT ![name] = {s}]}
       /\ Except(s, "unexpected")

(* Lines 254-255.                                                          *)
WriteIRS ==
    /\ \E s \in Sessions : form[s].pc = "write_irs" /\ WriteCopy(s, temp_irs, "write_crc")
    /\ FormUnchanged

(* Lines 256-257.                                                          *)
WriteCRC ==
    /\ \E s \in Sessions : form[s].pc = "write_crc" /\ WriteCopy(s, temp_crc, "analysis")
    /\ FormUnchanged

(* Lines 260-268, loan_analysis up to its line 178: it raises before any   *)
(* document is read, or goes on to the charges document.                   *)
StartAnalysis ==
    /\ \E s \in Sessions :
           /\ form[s].pc = "analysis"
           /\ Goto(s, "read_crc") \/ Except(s, "error")
    /\ UNCHANGED files
    /\ FormUnchanged

(* loan_analysis line 178: get_monthly_bank_charge(temp_crc) never raises. *)
ReadCRC ==
    /\ \E s \in Sessions :
           /\ form[s].pc = "read_crc"
           /\ form' = [form EXCEPT ![s].pc = "read_irs", ![s].crc = ReadOf(temp_crc)]
    /\ UNCHANGED files
    /\ FormUnchanged

(* loan_analysis lines 181-191: get_total_monthly_income(temp_irs) raises  *)
(* for a missing file; a document that is read is accepted or not.         *)
ReadIRS ==
    /\ \E s \in Sessions :
           /\ form[s].pc = "read_irs"
           /\ \/ /\ files[temp_irs] # {}
                 /\ form' = [form EXCEPT ![s].pc = "display", ![s].irs = ReadOf(temp_irs)]
              \/ form' = [form EXCEPT ![s].pc = "finally", ![s].file = 1,
                                      ![s].irs = ReadOf(temp_irs), ![s].outcome = "error"]
    /\ UNCHANGED files
    /\ FormUnchanged

(* Lines 270-291: the result is shown, or showing it raises.               *)
Display ==
    /\ \E s \in Sessions :
           /\ form[s].pc = "display"
           /\ Except(s, "result") \/ Except(s, "unexpected")
    /\ UNCHANGED files
    /\ FormUnchanged

(* Lines 300-301: for file in [temp_irs, temp_crc]: os.path.exists(file).  *)
Exists ==
    /\ \E s \in Sessions :
           /\ form[s].pc = "finally"
           /\ IF files[TempFiles[form[s].file]] # {} THEN Goto(s, "remove")
              ELSE IF form[s].file < Len(TempFiles)
              THEN form' = [form EXCEPT ![s].file = @ + 1]
              ELSE Goto(s, "done")
    /\ UNCHANGED files
    /\ FormUnchanged

(* Line 302: os.remove(file) raises FileNotFoundError, which leaves the    *)
(* finally clause, when the file is gone since the test.                   *)
Remove ==
    /\ \E s \in Sessions :
           /\ form[s].pc = "remove"
           /\ IF files[TempFiles[form[s].file]] = {}
              THEN form' = [form EXCEPT ![s].pc = "done", ![s].outcome = "crashed"]
                   /\ UNCHANGED files
              ELSE /\ files' = [files EXCEPT ![TempFiles[form[s].file]] = {}]
                   /\ IF form[s].file < Len(TempFiles)
                      THEN form' = [form EXCEPT ![s].pc = "finally", ![s].file = @ + 1]
                      ELSE Goto(s, "done")
    /\ FormUnchanged

IdleExtract == IdleNumbers /\ IdleTables /\ IdleCharges

(***************************************************************************)
(* Specifications.                                                         *)
(***************************************************************************)
InitLoan ==
    /\ env \in EnvChoices
    /\ today = Today0
    /\ IdleForm
    /\ loanIn \in LoanCalls
    /\ schedActual = NoResult
    /\ schedStress = NoResult
    /\ IdleAge
    /\ IdleYear
    /\ IdleAnalysis
    /\ IdleExtract

NextLoan == IntCapLoan \/ IntCapLoanStress

SpecLoan == InitLoan /\ [][NextLoan]_vars

InitAge ==
    /\ env \in EnvChoices
    /\ today \in TodayChoices
    /\ IdleForm
    /\ IdleLoan
    /\ ageIn \in [birthdate_str : BirthdateInputs, marital_status : MaritalInputs]
    /\ ageOut = NoAge("idle")
    /\ IdleYear
    /\ IdleAnalysis
    /\ IdleExtract

NextAge == CalculateAge

SpecAge == InitAge /\ [][NextAge]_vars

InitYear ==
    /\ env \in EnvChoicesYear
    /\ today \in TodayChoices
    /\ IdleForm
    /\ IdleLoan
    /\ IdleAge
    /\ doc \in YearDocs
    /\ validation = NoValidation
    /\ summary = NoSummary
    /\ IdleAnalysis
    /\ IdleExtract

NextYear == ValidateDocumentYear \/ IsDocumentAcceptable

SpecYear == InitYear /\ [][NextYear]_vars

InitNumbers ==
    /\ env = BaseEnv
    /\ today = Today0
    /\ IdleForm
    /\ IdleLoan
    /\ IdleAge
    /\ IdleYear
    /\ IdleAnalysis
    /\ numIn \in NumberInputs
    /\ numOut = [cells |-> NotRun, lines |-> NotRun]
    /\ IdleTables
    /\ IdleCharges

NextNumbers == ExtractNumbersFromCells \/ ExtractNumbersFromLines

SpecNumbers == InitNumbers /\ [][NextNumbers]_vars

InitCharges ==
    /\ env \in EnvChoicesCharges
    /\ today = Today0
    /\ IdleForm
    /\ IdleLoan
    /\ IdleAge
    /\ IdleYear
    /\ IdleAnalysis
    /\ IdleNumbers
    /\ IdleTables
    /\ crcDoc \in ChargeInputs
    /\ chargeOut = NoCharge

NextCharges == ProcessPdfCRC \/ MonthlyBankCharge

SpecCharges == InitCharges /\ [][NextCharges]_vars

InitTables ==
    /\ env \in EnvChoicesTables
    /\ today = Today0
    /\ IdleForm
    /\ IdleLoan
    /\ IdleAge
    /\ doc \in TableDocs
    /\ validation = NoValidation
    /\ summary = NoSummary
    /\ IdleAnalysis
    /\ IdleNumbers
    /\ IdleTables
    /\ IdleCharges

NextTables ==
    ExtractTablesFromPdf \/ ConvertToDataframes \/ ExtractMonthlyIncome \/ ExtractYearByAnexo

SpecTables == InitTables /\ [][NextTables]_vars

InitForm ==
    /\ env = BaseEnv
    /\ today = Today0
    /\ files = [f \in {temp_irs, temp_crc} |-> {}]
    /\ form \in [Sessions -> {NoSession, [NoSession EXCEPT !.uploaded = TRUE]}]
    /\ IdleLoan
    /\ IdleAge
    /\ IdleYear
    /\ IdleAnalysis
    /\ IdleExtract

NextForm ==
    \/ Analisar \/ WriteIRS \/ WriteCRC \/ StartAnalysis \/ ReadCRC \/ ReadIRS
    \/ Display \/ Exists \/ Remove

SpecForm == InitForm /\ [][NextForm]_vars

Handled(s) == form[s].pc = "done" /\ form[s].uploaded

CopiesOf(s) == {f \in {temp_irs, temp_crc} : s \in files[f]}

Quiescent == \A s \in Sessions : form[s].pc \in {"idle", "done"}

(* C23: once the form has handled a request, no temporary file holds that  *)
(* request's document any more, whichever way the handler ended.           *)
C23_NoCopyAfterRequest == \A s \in Sessions : Handled(s) => CopiesOf(s) = {}

(* The cleanup as far as it goes: when no request is being handled,        *)
(* neither temporary file exists.                                          *)
NoCopyWhenQuiescent == Quiescent => \A f \in {temp_irs, temp_crc} : files[f] = {}

(* C26: a request reads only the documents it wrote itself: never another  *)
(* request's upload, and never a file that a cleanup has already deleted.  *)
C26_OwnDocumentsOnly ==
    \A s \in Sessions :
        /\ form[s].crc.done => form[s].crc.upload = {s}
        /\ form[s].irs.done => form[s].irs.upload = {s}

Init ==
    /\ env \in EnvChoicesAnalysis
    /\ today = Today0
    /\ IdleForm
    /\ IdleLoan
    /\ IdleAge
    /\ IdleYear
    /\ req \in Requests
    /\ pc = "start"
    /\ run = NoRun
    /\ IdleExtract

Next ==
    \/ ReadRates
    \/ ValidateLoan
    \/ GetLimitRate
    \/ GetMonthlyLoanPayment
    \/ GetMonthlyBankCharge
    \/ GetTotalMonthlyIncome
    \/ ValidateIncome
    \/ Decide

Spec == Init /\ [][Next]_vars

(***************************************************************************)
(* Properties of the amortization schedule (SpecLoan).                     *)
(***************************************************************************)
Schedules == {schedActual, schedStress}

Built(s) == s.call.kind = "ok"

Principal(s) == <<s.call.pv, 1>>

(* Sum of the principal portions of periods 1 .. k.                        *)
PaidOff(s, k) == RSum([i \in 1 .. k |-> s.df[i].Capital])

(* rounded is a multiple of 10^-places at most half a unit away from exact. *)
WithinHalfUnit(rounded, exact, places) ==
    LET scale == RPow(<<10, 1>>, places)[1]
        fl == ScaledFloor(0, exact[1] % exact[2], exact[2], places)
        lo == (exact[1] \div exact[2]) * scale + fl[1]
    IN  \/ rounded = Norm(lo, scale) /\ 2 * fl[2] <= exact[2]
        \/ rounded = Norm(lo + 1, scale) /\ 2 * fl[2] >= exact[2]

(* C6: for every schedule built by intCapLoan or intCapLoanStress (P > 0,  *)
(* monthly rate >= 0, n >= 1) the principal portions of the n periods sum  *)
(* to P within 0.01, the balance shown after period k is P minus the first *)
(* k principal portions (rounded to 5 decimals, so at most half a unit of  *)
(* the fifth decimal away), and the balance after period n is 0.           *)
C6_PrincipalSumsToLoan ==
    \A s \in Schedules :
        Built(s) =>
            /\ Len(s.df) = s.call.nper
            /\ RLe(RAbs(RSub(PaidOff(s, s.call.nper), Principal(s))), R(1, 100))
            /\ \A k \in 1 .. s.call.nper :
                 WithinHalfUnit(s.df[k].Divida,
                                RSub(Principal(s), PaidOff(s, k)), 5)
            /\ s.df[s.call.nper].Divida = Zero

C6_Witness ==
    /\ Built(schedActual) /\ Built(schedStress)
    /\ schedStress.call.nper >= 3
    /\ RLt(Zero, schedStress.call.monthly_rate)
    /\ \E k \in 1 .. schedStress.call.nper :
         schedStress.df[k].Divida
            # RSub(Principal(schedStress), PaidOff(schedStress, k))

(* C7: in every period k the payment is the same constant (the payment the *)
(* call returns), the interest portion is the balance before period k      *)
(* times the monthly rate, and interest + principal is the payment.        *)
C7_ConstantPaymentSplit ==
    \A s \in Schedules :
        Built(s) =>
            \A k \in 1 .. s.call.nper :
                /\ s.df[k].Prestacao = s.payment
                /\ s.df[k].Juros =
                     RMul(RSub(Principal(s), PaidOff(s, k - 1)), s.call.monthly_rate)
                /\ RAdd(s.df[k].Juros, s.df[k].Capital) = s.df[k].Prestacao

C7_Witness ==
    /\ Built(schedActual)
    /\ schedActual.call.nper >= 3
    /\ RLt(Zero, schedActual.call.monthly_rate)
    /\ schedActual.df[1].Juros # schedActual.df[3].Juros

(* C8: the monthly rate is the annual rate divided by 12; when it is 0 the *)
(* payment is exactly P/n and every interest portion is 0; when it is      *)
(* positive the payment is rate*P / (1 - (1+rate)^-n).                     *)
C8_PaymentFormula ==
    \A s \in Schedules :
        Built(s) =>
            LET rate == s.call.monthly_rate
                n == s.call.nper
            IN  /\ RMul(rate, <<12, 1>>) = s.call.total_rate
                /\ rate = Zero =>
                     /\ s.payment = RDiv(Principal(s), <<n, 1>>)
                     /\ \A k \in 1 .. n : s.df[k].Juros = Zero
                /\ RLt(Zero, rate) =>
                     s.payment =
                        RDiv(RMul(rate, Principal(s)),
                             RSub(One, RInv(RPow(RAdd(One, rate), n))))

C8_Witness ==
    /\ Built(schedActual) /\ Built(schedStress)
    /\ schedActual.call.monthly_rate = Zero
    /\ schedActual.call.nper >= 2
    /\ RLt(Zero, schedStress.call.monthly_rate)

(***************************************************************************)
(* Properties of the loan-term policy (SpecAge).                           *)
(***************************************************************************)
AgeCalled == ageOut.kind # "idle"

Supplied == ageIn.birthdate_str.items

C29_OtherStatusGivesNone ==
    (AgeCalled /\ ageIn.marital_status \notin {"casado", "solteiro"}) =>
        ageOut.kind = "none"

ClaimedAge(text, day) ==
    day.year - text[3]
        - (IF day.month * 100 + day.day < text[2] * 100 + text[1] THEN 1 ELSE 0)

(* The earlier of two birthdates (the older applicant's).                  *)
OlderText(a, b) ==
    IF a[3] * 10000 + a[2] * 100 + a[1] <= b[3] * 10000 + b[2] * 100 + b[1]
    THEN a ELSE b

(* C5: an applicant's age is today's year minus the birth year, minus one  *)
(* when today's (month, day) is before the birthday's; a couple's term     *)
(* comes from the larger age, so the result is the same with the two       *)
(* birthdates swapped and the same as for the older applicant alone.       *)
C5_AgeAndCoupleSymmetry ==
    AgeCalled =>
        /\ (ageIn.marital_status = "solteiro" /\ ~ageIn.birthdate_str.islist
            /\ Parses(Supplied[1]))
              => ageOut.aged /\ ageOut.age = ClaimedAge(Supplied[1], today)
        /\ (ageIn.marital_status = "casado" /\ ageIn.birthdate_str.islist
            /\ Len(Supplied) = 2 /\ Parses(Supplied[1]) /\ Parses(Supplied[2]))
              => /\ ageOut.aged
                 /\ ageOut.age = Max(ClaimedAge(Supplied[1], today),
                                     ClaimedAge(Supplied[2], today))
                 /\ ageOut = calculate_age(List(<<Supplied[2], Supplied[1]>>),
                                           "casado", today)
                 /\ ageOut = calculate_age(Text(OlderText(Supplied[1], Supplied[2])),
                                           "solteiro", today)

C5_Witness ==
    /\ AgeCalled /\ ageOut.kind = "term"
    /\ ageIn.marital_status = "casado"
    /\ ageIn.birthdate_str.islist /\ Len(Supplied) = 2
    /\ Parses(Supplied[1]) /\ Parses(Supplied[2])
    /\ ClaimedAge(Supplied[1], today) = 30
    /\ ClaimedAge(Supplied[2], today) = 35
    /\ ageOut.term = 444

(***************************************************************************)
(* Properties of the reporting-year validation (SpecYear).                 *)
(***************************************************************************)
(* Today's (month, day) is before the configured limit date's.             *)
BeforeLimit ==
    today.month * 100 + today.day < env.DATE_LIMIT.v[1] * 100 + env.DATE_LIMIT.v[2]

DocumentYear(a) == validation.anexo[a].document_year

(* C9: the cutoff is the current year - 2 when today is before this year's *)
(* limit date and the current year - 1 on or after it; so before it a      *)
(* section year of current_year-2 is accepted and current_year-3 rejected, *)
(* and on or after it current_year-1 is accepted, current_year-2 rejected. *)
C9_CutoffYear ==
    validation.kind = "done" =>
        /\ validation.cutoff_year =
             (IF BeforeLimit THEN today.year - 2 ELSE today.year - 1)
        /\ \A a \in Anexos :
             /\ BeforeLimit =>
                  /\ DocumentYear(a) = today.year - 2 => validation.anexo[a].valid
                  /\ DocumentYear(a) = today.year - 3 => ~validation.anexo[a].valid
             /\ ~BeforeLimit =>
                  /\ DocumentYear(a) = today.year - 1 => validation.anexo[a].valid
                  /\ DocumentYear(a) = today.year - 2 => ~validation.anexo[a].valid

C9_Witness ==
    /\ validation.kind = "done"
    /\ today.month = env.DATE_LIMIT.v[1] /\ today.day = env.DATE_LIMIT.v[2]
    /\ DocumentYear("Anexo_A") = today.year - 1 /\ validation.anexo["Anexo_A"].valid
    /\ DocumentYear("Anexo_D") = today.year - 2 /\ ~validation.anexo["Anexo_D"].valid

Failed == {summary.failed_anexos[i] : i \in 1 .. Len(summary.failed_anexos)}

(* C10: the document is accepted exactly when every section with an        *)
(* extracted year has year >= cutoff; a section without a year never       *)
(* causes rejection and is never named; the sections named in a rejection  *)
(* are exactly those with an extracted year below the cutoff.              *)
C10_AcceptedIffDatedSectionsValid ==
    summary.kind = "done" =>
        LET years == extract_year_by_anexo(doc, env)
            cutoff == limit_date(env, today).v
            tooOld == {a \in Anexos : years[a] # NoYear /\ years[a] < cutoff}
        IN  /\ summary.document_accepted <=> tooOld = {}
            /\ Failed = tooOld
            /\ Len(summary.failed_anexos) = Cardinality(tooOld)

C10_Witness ==
    /\ summary.kind = "done"
    /\ ~summary.document_accepted
    /\ summary.failed_anexos = <<"Anexo_B">>
    /\ HeaderRows(doc, "Anexo_A", env) # <<>>
    /\ extract_year_by_anexo(doc, env)["Anexo_A"] = NoYear
    /\ extract_year_by_anexo(doc, env)["Anexo_D"] >= limit_date(env, today).v

(***************************************************************************)
(* Properties of loan_analysis (Spec).                                     *)
(***************************************************************************)
PaymentChosen == pc \in {"charges", "income", "check", "decide", "returned"}

RegimeChosen == PaymentChosen \/ (pc = "raised" /\ run.regime # "none")

(* C1: in every call that returns a result the effort ratio is             *)
(* (monthly payment + monthly charges) / monthly income, with income > 0,  *)
(* and the approval flag is true exactly when the ratio is <= LIMITRATE;   *)
(* a ratio equal to LIMITRATE is approved.  (With a not-a-number charge    *)
(* the ratio is a not-a-number and no comparison with it is true.)         *)
C1_EffortRatioAndApproval ==
    pc = "returned" =>
        /\ RLt(Zero, run.monthly_income)
        /\ IF run.monthly_charges.kind = "value"
           THEN LET ratio == RDiv(RAdd(run.monthly_payment, run.monthly_charges.v),
                                  run.monthly_income)
                IN  /\ run.tx_esforco = Value(ratio)
                    /\ run.approved <=> RLe(ratio, env.LIMITRATE.v)
                    /\ ratio = env.LIMITRATE.v => run.approved
           ELSE run.tx_esforco.kind = "nan" /\ ~run.approved

C1_Witness ==
    /\ pc = "returned"
    /\ run.tx_esforco = Value(env.LIMITRATE.v)
    /\ run.monthly_charges.kind = "value" /\ RLt(Zero, run.monthly_charges.v)
    /\ run.approved

IncomeRead == run.irs.kind # "none"

Accepted ==
    /\ is_document_acceptable(req.irs, env, today).kind = "done"
    /\ is_document_acceptable(req.irs, env, today).document_accepted

(* C11: process_pdf_IRS extracts the tables and returns data exactly when  *)
(* the year validation accepted the document; on a rejection nothing is    *)
(* extracted, the rejection summary is returned, and loan_analysis ends    *)
(* with the error "Documento nao aceite ..." and never with a result.      *)
C11_RejectedDocumentIsFatal ==
    IncomeRead =>
        /\ run.irs.kind = "data" <=> Accepted
        /\ run.irs.extracted <=> run.irs.kind = "data"
        /\ run.irs.kind # "data" =>
               /\ pc = "raised"
               /\ run.error = ErrDocument
               /\ run.monthly_income = Zero

C11_Witness ==
    /\ IncomeRead
    /\ run.irs.kind = "summary"
    /\ ~run.irs.extracted
    /\ req.irs = OldPages
    /\ pc = "raised"
    /\ run.error = ErrDocument

ChargesFailed == env.BANK_CHARGE.kind = "unset" \/ ~req.crc.readable

(* C18: when the charges extraction fails (BANK_CHARGE not set, or the     *)
(* charges document unreadable) loan_analysis ends with an error and never *)
(* returns a result.                                                       *)
C18_ChargesFailureIsFatal ==
    ChargesFailed => pc # "returned"

(* C20: a principal <= 0 ends the call with the principal error before any *)
(* configuration value, rate lookup or document is touched, and the        *)
(* charges document is read before the income document.                    *)
C20_PrincipalCheckedFirst ==
    /\ (req.loan.val <= 0 /\ pc # "start") =>
           /\ pc \in {"validate", "raised"}
           /\ pc = "raised" => run.error = ErrLoan
           /\ run.call = NoCall
           /\ run.monthly_charges.kind = "unset"
           /\ ~IncomeRead
    /\ IncomeRead => run.monthly_charges.kind # "unset"

(* C24: in every returned result the annual rate shown ('Taxa') is rate +  *)
(* spread under the nominal regime and rate + spread + TXSTRESS under the  *)
(* stressed one, and it is the annual rate of the call that computed the   *)
(* returned payment.                                                       *)
C24_EchoedRate ==
    pc = "returned" =>
        /\ run.regime = "actual" => run.taxa = RAdd(req.rate, req.spread)
        /\ run.regime = "stress" =>
               run.taxa = RAdd(RAdd(req.rate, req.spread), EnvFloat(env.TXSTRESS, Zero))
        /\ run.call.kind = "ok"
        /\ run.taxa = run.call.total_rate
        /\ run.call.monthly_rate = RDiv(run.taxa, R(12, 1))

C24_Witness ==
    /\ pc = "returned"
    /\ run.regime = "stress"
    /\ env.TXSTRESS.kind = "number" /\ RLt(Zero, env.TXSTRESS.v)
    /\ run.taxa = RAdd(RAdd(req.rate, req.spread), env.TXSTRESS.v)
    /\ RLt(RAdd(req.rate, req.spread), run.taxa)

(* C25: when the income read from the document is <= 0 (an empty document  *)
(* included) loan_analysis raises the income error; no effort ratio and no *)
(* approval are computed, and the division of line 194 is reached only     *)
(* with an income above 0.                                                 *)
C25_NoIncomeIsFatal ==
    /\ (run.irs.kind = "data" /\ RLe(run.monthly_income, Zero)) =>
           /\ pc \in {"check", "raised"}
           /\ pc = "raised" => run.error = ErrIncome
           /\ run.tx_esforco.kind = "unset"
           /\ ~run.approved
    /\ pc \in {"decide", "returned"} => RLt(Zero, run.monthly_income)

C25_Witness ==
    /\ pc = "raised"
    /\ run.error = ErrIncome
    /\ req.irs = <<>>
    /\ run.irs.kind = "data"
    /\ run.monthly_income = Zero
    /\ run.tx_esforco.kind = "unset"

MaxTermOf(applicant) ==
    calculate_age(applicant.birthdate_str, applicant.marital_status, today)

(* C28: in every analysis that computes a payment the number of periods is *)
(* the term calculate_age derives from the applicants' age, a multiple of  *)
(* 12 from 60 to 480 months, whatever term was selected in the form; the   *)
(* payment is the one of that number of periods.                           *)
C28_TermFromAgeOnly ==
    (PaymentChosen /\ run.call.kind = "ok") =>
        /\ MaxTermOf(req.applicant).kind = "term"
        /\ run.call.nper = MaxTermOf(req.applicant).term
        /\ run.call.nper % 12 = 0
        /\ 60 <= run.call.nper /\ run.call.nper <= 480
        /\ run.monthly_payment \in
               PaymentAmounts(CallOk(run.call.total_rate,
                                     MaxTermOf(req.applicant).term, req.loan.val))

C28_Witness ==
    /\ pc = "returned"
    /\ req.loan_term = 60
    /\ run.call.nper = 480
    /\ run.monthly_payment = RDiv(R(req.loan.val, 1), R(480, 1))

(* C21: every failure reaches the caller as a LoanAnalysisError with a     *)
(* message; a call that returns gives a complete result, so after a        *)
(* failure of a step no result is returned.                                *)
C21_FailureOrCompleteResult ==
    /\ pc = "raised" => run.error # ""
    /\ pc = "returned" =>
           /\ run.error = ""
           /\ run.call.kind = "ok"
           /\ run.monthly_charges.kind = "value"
           /\ run.irs.kind = "data"
           /\ run.tx_esforco.kind = "value"

(* The sections a message names: the messages of loan_analysis are fixed   *)
(* texts (that of the payment step ends with the text of the exception it  *)
(* caught), none of which contains a section name.                         *)
SectionsNamed(message) == <<>>

RejectedSections == is_document_acceptable(req.irs, env, today).failed_anexos

(* C22: the message tells the failure kind, and a rejected document is     *)
(* reported with the names of its failing sections: the message of a       *)
(* rejected document is given for no other failure (a missing DATE_LIMIT   *)
(* is a configuration failure), and the message about marital status and   *)
(* birthdates is not given for a failed charges extraction.                *)
C22_MessageTellsKind ==
    pc = "raised" =>
        /\ run.irs.kind = "summary" =>
               /\ run.error = ErrDocument
               /\ SectionsNamed(run.error) = RejectedSections
        /\ run.error = ErrDocument => run.irs.kind = "summary"
        /\ (run.error = ErrGeneric /\ run.call.kind = "ok") => ~ChargesFailed

(* C2: the regime is chosen only by rate == TXFIXA (0 when unset): the     *)
(* nominal computation, annual rate = rate + spread, exactly when they are *)
(* equal; the stressed one, annual rate = rate + spread + TXSTRESS (0 when *)
(* unset), for every other rate.                                           *)
C2_RegimeByFixedRate ==
    RegimeChosen =>
        /\ run.regime = "actual" <=> req.rate = EnvFloat(env.TXFIXA, Zero)
        /\ run.regime = "stress" <=> req.rate # EnvFloat(env.TXFIXA, Zero)
        /\ run.call.kind = "ok" =>
             run.call.total_rate =
                 (IF run.regime = "actual" THEN RAdd(req.rate, req.spread)
                  ELSE RAdd(RAdd(req.rate, req.spread), EnvFloat(env.TXSTRESS, Zero)))

C2_Witness ==
    /\ PaymentChosen
    /\ run.regime = "stress"
    /\ run.call.kind = "ok"
    /\ env.TXSTRESS.kind = "number" /\ env.TXSTRESS.v # Zero
    /\ run.call.total_rate = RAdd(RAdd(req.rate, req.spread), env.TXSTRESS.v)

(***************************************************************************)
(* The "no result" outcome of the amortization functions (SpecLoan).       *)
(***************************************************************************)
LoanCalled == {r \in {schedActual, schedStress} : r.call.kind # "idle"}

AcceptedPair ==
    tx_spread(loanIn.rate, loanIn.spread, env, loanIn.lookup).kind = "value"

(* C19: intCapLoan and intCapLoanStress return (None, None) only when the  *)
(* principal is not a positive number or there is no term, and for every   *)
(* positive principal, of any numeric type, with a term and an accepted    *)
(* rate/spread pair they return a payment and a schedule.                  *)
C19_NoResultOnlyForBadInput ==
    \A r \in LoanCalled :
        /\ r.call.kind = "none" => (loanIn.loan.val <= 0 \/ loanIn.term = NoTerm)
        /\ (loanIn.loan.val > 0 /\ loanIn.term # NoTerm /\ AcceptedPair) =>
               r.call.kind = "ok"

(* C30: with the base rate equal to the fixed rate and a spread of the     *)
(* configured set, the call does not depend on the reference-rate lookup:  *)
(* it does not raise, and with a valid principal and term it amortizes at  *)
(* rate + spread (plus TXSTRESS in the stressed function), whether the     *)
(* lookup has rows or not.                                                 *)
C30_FixedRateNeedsNoLookup ==
    (loanIn.rate = EnvFloat(env.TXFIXA, Zero) /\ loanIn.spread \in valid_spreads(env)) =>
        \A r \in LoanCalled :
            /\ r.call.kind # "raise"
            /\ (loanIn.loan.type = "int" /\ loanIn.loan.val > 0 /\ loanIn.term # NoTerm) =>
                   /\ r.call.kind = "ok"
                   /\ r = schedActual =>
                          r.call.total_rate = RAdd(loanIn.rate, loanIn.spread)

(***************************************************************************)
(* Properties of the numeric parser (SpecNumbers).                         *)
(***************************************************************************)
AllDigits(s) == s # <<>> /\ \A i \in 1 .. Len(s) : IsDigit(s[i])

(* One to three digits, then groups of a dot and three digits.             *)
IsGrouped(s) ==
    \E k \in 1 .. 3 :
        /\ k <= Len(s)
        /\ AllDigits(SubSeq(s, 1, k))
        /\ (Len(s) - k) % 4 = 0
        /\ \A g \in 0 .. (((Len(s) - k) \div 4) - 1) :
               /\ s[k + 4 * g + 1] = "."
               /\ AllDigits(SubSeq(s, k + 4 * g + 2, k + 4 * g + 4))

(* The European format: an integer part, grouped or plain, a comma and two *)
(* decimals.                                                               *)
IsEuropean(s) ==
    /\ Len(s) >= 4
    /\ s[Len(s) - 2] = ","
    /\ AllDigits(SubSeq(s, Len(s) - 1, Len(s)))
    /\ LET whole == SubSeq(s, 1, Len(s) - 3)
       IN  IsGrouped(whole) \/ AllDigits(whole)

Spans(text) ==
    {span \in (1 .. Len(text)) \X (1 .. Len(text)) :
        span[1] <= span[2] /\ IsEuropean(SubSeq(text, span[1], span[2]))}

WithoutDots(s) == SelectSeq(s, IsDigit)

RECURSIVE Reading(_)
Reading(digits) ==
    IF digits = <<>> THEN 0
    ELSE 10 * Reading(SubSeq(digits, 1, Len(digits) - 1)) + DigitValue(digits[Len(digits)])

(* The value of the first substring of the text in the European format.    *)
FirstValue(text) ==
    LET span == CHOOSE x \in Spans(text) : \A y \in Spans(text) : x[1] <= y[1]
    IN  R(Reading(WithoutDots(SubSeq(text, span[1], span[2]))), 100)

ExpectedValues(texts) ==
    Flatten([i \in 1 .. Len(texts) |->
                IF Spans(texts[i]) = {} THEN <<>> ELSE <<FirstValue(texts[i])>>])

Sample1234 == <<"1", ".", "2", "3", "4", ",", "5", "6">>

Sample56 == <<"5", "6", ",", "0", "0">>

(* C16: for each cell (or line), in order, at most one value: that of the  *)
(* first substring in the European format, dots removed and the comma read *)
(* as decimal point ('1.234,56' gives 1234.56, '56,00' gives 56.0); an     *)
(* empty cell and a cell without such a substring give nothing.            *)
C16_NumericParser ==
    /\ numOut.cells.done =>
         /\ numOut.cells.values = ExpectedValues(numIn)
         /\ Len(numOut.cells.values) <= Len(numIn)
         /\ numIn = <<Sample1234, Sample56>> =>
              numOut.cells.values = <<R(123456, 100), R(56, 1)>>
    /\ numOut.lines.done =>
         /\ numOut.lines.values = ExpectedValues(numIn)
         /\ numIn = <<Sample1234, Sample56>> =>
              numOut.lines.values = <<R(123456, 100), R(56, 1)>>

C16_Witness ==
    /\ numOut.cells.done /\ numOut.lines.done
    /\ numIn = <<  <<"a", "b">>, Sample1234  >>
    /\ numOut.cells.values = <<R(123456, 100)>>
    /\ numOut.lines.values = <<R(123456, 100)>>

(***************************************************************************)
(* Properties of the charges extractor (SpecCharges).                      *)
(***************************************************************************)
AllLines == Flatten(crcDoc.pages)

HasMarker(line) ==
    Contains(normalize_text(env.BANK_CHARGE.v), normalize_text(line))

(* C17: one amount, in document order, for each line whose normalized text *)
(* contains the normalized marker and that has a numeric match (its first  *)
(* match); other lines contribute nothing; the monthly charge is the sum   *)
(* of the amounts, 0 when there is none.                                   *)
C17_ChargeLines ==
    /\ chargeOut.list.kind = "list" =>
         chargeOut.list.amounts = ExpectedValues(SelectSeq(AllLines, HasMarker))
    /\ chargeOut.sum.kind = "value" =>
         /\ chargeOut.sum.v = RSum(ExpectedValues(SelectSeq(AllLines, HasMarker)))
         /\ ExpectedValues(SelectSeq(AllLines, HasMarker)) = <<>> =>
              chargeOut.sum.v = Zero

C17_Witness ==
    /\ chargeOut.list.kind = "list" /\ chargeOut.sum.kind = "value"
    /\ crcDoc.pages = <<  <<  <<"e'", "M">>, ChargeLine  >>  >>
    /\ env.BANK_CHARGE.v = <<"m">>
    /\ chargeOut.list.amounts = <<R(5, 100)>>
    /\ chargeOut.sum.v = R(5, 100)

(***************************************************************************)
(* Properties of the income tables (SpecTables).                           *)
(***************************************************************************)
MarkerIn(anexo, page) ==
    /\ normalize_text(env.KEY_ANEXO[anexo]) # <<>>
    /\ Contains(normalize_text(env.KEY_ANEXO[anexo]), normalize_text(page.text))

ExpectedSection(page) ==
    IF MarkerIn("Anexo_D", page) THEN "Anexo_D"
    ELSE IF MarkerIn("Anexo_A", page) THEN "Anexo_A"
    ELSE IF MarkerIn("Anexo_B", page) THEN "Anexo_B"
    ELSE None

Extracted == extraction.kind # "idle"

Converted == extraction.kind = "frames"

(* The rows kept for page i in the given section (none when the page has   *)
(* no entry there).                                                        *)
KeptRows(anexo, i) ==
    Flatten([k \in 1 .. Len(extraction.tables[anexo]) |->
                IF extraction.tables[anexo][k].page = i
                THEN extraction.tables[anexo][k].rows ELSE <<>>])

(* C12: a page gets the section of lowest priority number (Anexo_D, then   *)
(* Anexo_A, then Anexo_B) among those whose non-empty normalized marker    *)
(* occurs in its normalized text, and none when no marker occurs; rows are *)
(* kept for a page only in its own section, and a page without section     *)
(* gives no rows and no year: the years are those of the document without  *)
(* such pages.                                                             *)
C12_PageSection ==
    /\ Extracted =>
         \A i \in 1 .. Len(doc) :
             /\ extraction.page_types[i] = ExpectedSection(doc[i])
             /\ \A a \in Anexos :
                    KeptRows(a, i) # <<>> => ExpectedSection(doc[i]) = a
             /\ ExpectedSection(doc[i]) = None =>
                    \A a \in Anexos : KeptRows(a, i) = <<>>
    /\ extraction.collected =>
         extraction.years =
             extract_year_by_anexo(
                 SelectSeq(doc, LAMBDA page : ExpectedSection(page) # None), env)

C12_Witness ==
    /\ Extracted /\ extraction.collected
    /\ \E i \in 1 .. Len(doc), j \in 1 .. Len(doc) :
           /\ MarkerIn("Anexo_A", doc[i]) /\ MarkerIn("Anexo_D", doc[i])
           /\ extraction.page_types[i] = "Anexo_D"
           /\ KeptRows("Anexo_D", i) # <<>>
           /\ extraction.page_types[j] = None
           /\ doc[j].tables # <<>>
           /\ \E r \in 1 .. Len(Flatten(doc[j].tables)) :
                  HasYear(RowText(Flatten(doc[j].tables)[r]))
    /\ extraction.years["Anexo_D"] # NoYear
    /\ extraction.years["Anexo_A"] = NoYear

ConfiguredCodes == {i \in 1 .. Len(Codes) : env.FIELD_VALUE_B_tx[i].kind = "number"}

CodesIn(row) == {i \in ConfiguredCodes : HasCode(RowText(row), Codes[i])}

HasFieldMarker(anexo, row) ==
    /\ env.FIELD_VALUE[anexo].kind = "text"
    /\ env.FIELD_VALUE[anexo].v # <<>>
    /\ Contains(normalize_text(env.FIELD_VALUE[anexo].v), normalize_text(RowText(row)))

ShouldKeep(anexo, row) ==
    /\ NonBlank(row)
    /\ IF anexo = "Anexo_B" THEN CodesIn(row) # {} ELSE HasFieldMarker(anexo, row)

FirstCode(row) == Codes[CHOOSE i \in CodesIn(row) : \A j \in CodesIn(row) : i <= j]

RowsOfB == SectionRows(extraction.tables["Anexo_B"])

(* C13: on a page of Anexo_B a non-blank row is kept exactly when its text *)
(* contains, as a whole token, a code that has a rate in the               *)
(* configuration, and the code recorded for it is the first such code in   *)
(* the order of the code list; on a page of Anexo_A or Anexo_D a row is    *)
(* kept exactly when its normalized text contains the section's normalized *)
(* field marker.                                                           *)
C13_KeptRows ==
    /\ Extracted =>
         \A i \in 1 .. Len(doc) :
             (doc[i].tables # <<>> /\ extraction.page_types[i] # None) =>
                 KeptRows(extraction.page_types[i], i) =
                     SelectSeq(Flatten(doc[i].tables),
                               LAMBDA row : ShouldKeep(extraction.page_types[i], row))
    /\ Converted =>
         /\ Len(extraction.frames.data_b) = Len(RowsOfB)
         /\ \A k \in 1 .. Len(RowsOfB) :
                extraction.frames.data_b[k].Codigo = FirstCode(RowsOfB[k])

C13_Witness ==
    /\ Converted
    /\ \E k \in 1 .. Len(RowsOfB) :
           /\ RowsOfB[k][1] = <<"4", "0", "2", " ", "4", "0", "1">>
           /\ CodesIn(RowsOfB[k]) = {1, 2}
           /\ extraction.frames.data_b[k].Codigo = 401
    /\ \E i \in 1 .. Len(doc) :
           /\ extraction.page_types[i] = "Anexo_B"
           /\ \E r \in 1 .. Len(Flatten(doc[i].tables)) :
                  /\ HasCode(RowText(Flatten(doc[i].tables)[r]), 459)
                  /\ ~ShouldKeep("Anexo_B", Flatten(doc[i].tables)[r])
           /\ Len(KeptRows("Anexo_B", i)) < Len(Flatten(doc[i].tables))
    /\ \E i \in 1 .. Len(doc) :
           /\ extraction.page_types[i] = "Anexo_A"
           /\ KeptRows("Anexo_A", i) # <<>>
           /\ Len(KeptRows("Anexo_A", i)) < Len(Flatten(doc[i].tables))

NthOrZero(values, n) == IF n <= Len(values) THEN values[n] ELSE Zero

RowsWithNumber(rows) == SelectSeq(rows, LAMBDA row : ExpectedValues(row) # <<>>)

RowsOfA == RowsWithNumber(SectionRows(extraction.tables["Anexo_A"]))

(* C14: each kept row of Anexo_A that has a number gives one entry, in     *)
(* order: its numbers fill income, tax withheld, contributions, surtax and *)
(* dues by position, a missing one is 0, a sixth is ignored; Total is      *)
(* income - tax - contributions - surtax - dues and Mensal is Total/12.  A *)
(* row without a number gives no entry.                                    *)
C14_AnexoARows ==
    Converted =>
        /\ Len(extraction.frames.data_a) = Len(RowsOfA)
        /\ Len(extraction.frames.df_a) = Len(RowsOfA)
        /\ \A k \in 1 .. Len(RowsOfA) :
               LET values == ExpectedValues(RowsOfA[k])
                   entry == extraction.frames.data_a[k]
                   total == RSub(NthOrZero(values, 1),
                                 RSum(<<NthOrZero(values, 2), NthOrZero(values, 3),
                                        NthOrZero(values, 4), NthOrZero(values, 5)>>))
               IN  /\ entry.Rendimentos = NthOrZero(values, 1)
                   /\ entry.Retencoes = NthOrZero(values, 2)
                   /\ entry.Contribuicoes = NthOrZero(values, 3)
                   /\ entry.Sobretaxa = NthOrZero(values, 4)
                   /\ entry.Quotizacoes = NthOrZero(values, 5)
                   /\ extraction.frames.df_a[k].entry = entry
                   /\ extraction.frames.df_a[k].Total = total
                   /\ extraction.frames.df_a[k].Mensal = RDiv(total, R(12, 1))

C14_Witness ==
    /\ Converted
    /\ Len(RowsOfA) < Len(SectionRows(extraction.tables["Anexo_A"]))
    /\ \E k \in 1 .. Len(RowsOfA), m \in 1 .. Len(RowsOfA) :
           /\ Len(ExpectedValues(RowsOfA[k])) = 6
           /\ extraction.frames.df_a[k].Total = R(4, 1)
           /\ extraction.frames.df_a[k].Mensal = R(1, 3)
           /\ Len(ExpectedValues(RowsOfA[m])) = 2
           /\ extraction.frames.data_a[m].Contribuicoes = Zero
           /\ extraction.frames.df_a[m].Total = R(2, 1)

RateOf(code) == env.FIELD_VALUE_B_tx[CHOOSE i \in 1 .. Len(Codes) : Codes[i] = code].v

(* C15: each kept row of a non-empty Anexo_B takes the rate configured for *)
(* its recorded code and the first number of the row as value (0 without   *)
(* one); the table is one summary row with Valor the sum of the values,    *)
(* Total the sum of rate * value, Mensal = Total/12 and rate 0.            *)
C15_AnexoBSummary ==
    (Converted /\ RowsOfB # <<>>) =>
        /\ \A k \in 1 .. Len(RowsOfB) :
               /\ extraction.frames.data_b[k].Taxa =
                      RateOf(extraction.frames.data_b[k].Codigo)
               /\ extraction.frames.data_b[k].Valor =
                      NthOrZero(ExpectedValues(RowsOfB[k]), 1)
        /\ Len(extraction.frames.df_b) = 1
        /\ extraction.frames.df_b[1].Taxa = Zero
        /\ extraction.frames.df_b[1].Valor =
               RSum([k \in 1 .. Len(RowsOfB) |-> NthOrZero(ExpectedValues(RowsOfB[k]), 1)])
        /\ extraction.frames.df_b[1].Total =
               RSum([k \in 1 .. Len(RowsOfB) |->
                        RMul(RateOf(FirstCode(RowsOfB[k])),
                             NthOrZero(ExpectedValues(RowsOfB[k]), 1))])
        /\ extraction.frames.df_b[1].Mensal =
               RDiv(extraction.frames.df_b[1].Total, R(12, 1))

C15_Witness ==
    /\ Converted
    /\ Len(RowsOfB) >= 3
    /\ \E k \in 1 .. Len(RowsOfB), m \in 1 .. Len(RowsOfB), n \in 1 .. Len(RowsOfB) :
           /\ extraction.frames.data_b[k].Taxa = R(3, 4)
           /\ extraction.frames.data_b[m].Taxa = R(1, 2)
           /\ ExpectedValues(RowsOfB[n]) = <<>>
           /\ extraction.frames.data_b[n].Valor = Zero
    /\ RLt(Zero, extraction.frames.df_b[1].Total)
    /\ RLt(extraction.frames.df_b[1].Total, extraction.frames.df_b[1].Valor)

IncomeSummed == extraction.kind = "income"

RowsOfD == RowsWithNumber(SectionRows(extraction.tables["Anexo_D"]))

ExpectedTotalA(row) ==
    RSub(NthOrZero(ExpectedValues(row), 1),
         RSum(<<NthOrZero(ExpectedValues(row), 2), NthOrZero(ExpectedValues(row), 3),
                NthOrZero(ExpectedValues(row), 4), NthOrZero(ExpectedValues(row), 5)>>))

ExpectedTotalB(row) ==
    RMul(RateOf(FirstCode(row)), NthOrZero(ExpectedValues(row), 1))

(* C27: the total monthly income is Anexo A + Anexo B + Anexo D monthly,   *)
(* every kept row counted once: Anexo A the sum of its rows' Total/12,     *)
(* Anexo B one twelfth of the sum of rate * value, Anexo D one twelfth of  *)
(* the sum of its rows' first numbers, held by a single summary row; a     *)
(* section without rows counts 0.                                          *)
C27_TotalMonthlyIncome ==
    IncomeSummed =>
        /\ extraction.mensal["Anexo_A"] =
               RSum([k \in 1 .. Len(RowsOfA) |-> RDiv(ExpectedTotalA(RowsOfA[k]), R(12, 1))])
        /\ extraction.mensal["Anexo_B"] =
               RDiv(RSum([k \in 1 .. Len(RowsOfB) |-> ExpectedTotalB(RowsOfB[k])]), R(12, 1))
        /\ extraction.mensal["Anexo_D"] =
               RDiv(RSum([k \in 1 .. Len(RowsOfD) |-> ExpectedValues(RowsOfD[k])[1]]), R(12, 1))
        /\ Len(extraction.frames.df_b) <= 1
        /\ Len(extraction.frames.df_d) = (IF RowsOfD = <<>> THEN 0 ELSE 1)
        /\ RowsOfD # <<>> =>
               extraction.frames.df_d[1].Valor =
                   RSum([k \in 1 .. Len(RowsOfD) |-> ExpectedValues(RowsOfD[k])[1]])
        /\ \A a \in Anexos :
               SectionRows(extraction.tables[a]) = <<>> => extraction.mensal[a] = Zero
        /\ extraction.total_mensal =
               RAdd(extraction.mensal["Anexo_A"],
                    RAdd(extraction.mensal["Anexo_B"], extraction.mensal["Anexo_D"]))

C27_Witness ==
    /\ IncomeSummed
    /\ Len(RowsOfD) = 2
    /\ extraction.frames.df_d[1].Valor = R(31, 5)
    /\ extraction.mensal["Anexo_D"] = R(31, 60)
    /\ Len(RowsOfB) >= 2
    /\ RLt(Zero, extraction.mensal["Anexo_B"])
    /\ SectionRows(extraction.tables["Anexo_A"]) = <<>>
    /\ extraction.mensal["Anexo_A"] = Zero
    /\ extraction.total_mensal = RAdd(extraction.mensal["Anexo_B"], R(31, 60))

====
